---------------------------- MODULE Spec2Model ----------------------------
(***************************************************************************)
(* Model of the procedural virus generator of the repository: the trait    *)
(* derivation done at the top of every Virus3D component (token id ->      *)
(* keccak256 seed -> hue, spike count, alignment, mutation), the palette   *)
(* functions, the spike placement loops and the surface displacement.      *)
(*                                                                         *)
(* The repository holds six renderer variants:                             *)
(*   "rugged"  src/components/Virus3D.tsx   lines   1..342                 *)
(*   "ring"    src/components/Virus3D.tsx   lines 343..653                 *)
(*   "style"   src/unnamed/part_003                                        *)
(*   "lore"    src/unnamed/part_004         lines   1..248                 *)
(*   "cyber"   src/unnamed/part_004         lines 249..772                 *)
(*   "neon"    src/unnamed/part_005                                        *)
(*                                                                         *)
(* Real numbers are fixed point: lengths and sines in units of 1/Scale,    *)
(* angles in micro-radians.  keccak256 is a library function: it is        *)
(* modelled as an unknown function of its input, fixed on first use.       *)
(***************************************************************************)
EXTENDS Integers, Sequences, FiniteSets, TLC

VARIABLES
    keccak,   \* the hash function as far as it has been evaluated: packed input -> hex digits
    comp,     \* the mounted Virus3D components, one per slot
    call,     \* a single call of one of the pure functions: its name and arguments
    ret       \* the result of that call, once it has been applied

vars == <<keccak, comp, call, ret>>

---------------------------------------------------------------------------
(* Bounds of the model *)

\* Token ids are 0..MaxTokenId.
MaxTokenId == 1

\* The hash is cut to its four low hex digits; the top one of them is 0..MaxTopNibble.
MaxTopNibble == 3

\* The number of frames a behaviour of the frame loop renders
MaxTicks == 3

\* The number of particles of each point cloud (3000, 12000, 250 and 50 in the source)
CloudSize == 1

\* The widths of the numbers are scaled down: a double carries MantissaBits
\* significant bits (53 in IEEE 754) and a uint256 has MantissaBits + 2 bits.
MantissaBits == 3

---------------------------------------------------------------------------
(* Fixed-point arithmetic *)

Scale == 10 ^ 4

\* Angles are integers in micro-radians.
AngleUnit == 10 ^ 6

PI == 3141593

TWO_PI == 2 * PI

HALF_PI == PI \div 2

Abs(x) == IF x < 0 THEN -x ELSE x

\* a * b for two fixed-point numbers
Mul(a, b) == (a * b) \div Scale

\* Math.sqrt of a fixed-point number in 0..1 (Newton's iteration on integers)
RECURSIVE SqrtIter(_, _, _)
SqrtIter(n, r, k) ==
    IF k = 0 \/ r = 0 THEN r
    ELSE LET r2 == (r + n \div r) \div 2
         IN  IF r2 >= r THEN r ELSE SqrtIter(n, r2, k - 1)

Sqrt(v) == IF v <= 0 THEN 0 ELSE SqrtIter(v * Scale, IF v > Scale THEN v ELSE Scale, 40)

\* Taylor series of the sine for an angle x in 0..pi/2, x in units of 1/Scale rad
SinSeries(x) ==
    LET x2 == (x * x) \div Scale
        t3 == (x * x2) \div (Scale * 6)
        t5 == (t3 * x2) \div (Scale * 20)
        t7 == (t5 * x2) \div (Scale * 42)
        t9 == (t7 * x2) \div (Scale * 72)
    IN  x - t3 + t5 - t7 + t9

\* Math.sin of an angle in micro-radians
Sin(u) ==
    LET r == u % TWO_PI
        half == IF r >= PI THEN r - PI ELSE r
        q == IF half > HALF_PI THEN PI - half ELSE half
        s == SinSeries(q \div (AngleUnit \div Scale))
    IN  IF r >= PI THEN -s ELSE s

\* Math.cos of an angle in micro-radians
Cos(u) == Sin(u + HALF_PI)

\* Math.acos of a fixed-point number: bisection on the decreasing cosine
RECURSIVE AcosIter(_, _, _, _)
AcosIter(c, lo, hi, k) ==
    IF k = 0 \/ hi - lo <= 1 THEN (lo + hi) \div 2
    ELSE LET mid == (lo + hi) \div 2
         IN  IF Cos(mid) > c THEN AcosIter(c, mid, hi, k - 1)
                             ELSE AcosIter(c, lo, mid, k - 1)

Acos(c) ==
    IF c >= Scale THEN 0
    ELSE IF c <= -Scale THEN PI
    ELSE AcosIter(c, 0, PI, 24)

\* Math.atan2(y, x) brought into 0..2pi
Atan2(y, x) ==
    LET rho == Sqrt(Mul(x, x) + Mul(y, y))
        a == IF rho = 0 THEN 0 ELSE Acos((x * Scale) \div rho)
    IN  IF y >= 0 THEN a ELSE TWO_PI - a

\* a * b mod m without leaving 32 bits (a, b, m below 2^30)
RECURSIVE ModMul(_, _, _)
ModMul(a, b, m) ==
    IF b = 0 THEN 0
    ELSE LET h == ModMul((2 * (a % m)) % m, b \div 2, m)
         IN  IF b % 2 = 1 THEN (h + (a % m)) % m ELSE h

Dot(p, q) == Mul(p[1], q[1]) + Mul(p[2], q[2]) + Mul(p[3], q[3])

Norm(p) == Sqrt(Dot(p, p))

---------------------------------------------------------------------------
(* The renderer variants and the hash input *)

Variants == {"rugged", "ring", "style", "lore", "cyber", "neon"}

\* The variants that derive an alignment (all but "style")
AlignedVariants == Variants \ {"style"}

TokenIds == 0 .. MaxTokenId

DOMAIN_TAG == "VIRUS_EVO_V1"

\* One argument of encodePacked: its Solidity type and its value
Uint256Arg(n) == [type |-> "uint256", num |-> n, str |-> ""]

StringArg(s) == [type |-> "string", num |-> 0, str |-> s]

\* encodePacked(['uint256','uint256','string'], [BigInt(tokenId), BigInt(tokenId), 'VIRUS_EVO_V1']):
\* a uint256 is packed to a fixed 32 bytes, so the packed bytes are given by the
\* argument list in its order.
PackedRugged(tokenId) == <<Uint256Arg(tokenId), Uint256Arg(tokenId), StringArg(DOMAIN_TAG)>>

PackedRing(tokenId) == <<Uint256Arg(tokenId), Uint256Arg(tokenId), StringArg(DOMAIN_TAG)>>

PackedStyle(tokenId) == <<Uint256Arg(tokenId), Uint256Arg(tokenId), StringArg(DOMAIN_TAG)>>

PackedLore(tokenId) == <<Uint256Arg(tokenId), Uint256Arg(tokenId), StringArg(DOMAIN_TAG)>>

PackedCyber(tokenId) == <<Uint256Arg(tokenId), Uint256Arg(tokenId), StringArg(DOMAIN_TAG)>>

\* A variant whose domain string was bumped on its own
PackedNeonOtherTag(tokenId) == <<Uint256Arg(tokenId), Uint256Arg(tokenId), StringArg("VIRUS_EVO_V2")>>

PackedNeon(tokenId) == <<Uint256Arg(tokenId), Uint256Arg(tokenId), StringArg(DOMAIN_TAG)>>

PackedInput(v, tokenId) ==
    CASE v = "rugged" -> PackedRugged(tokenId)
      [] v = "ring"   -> PackedRing(tokenId)
      [] v = "style"  -> PackedStyle(tokenId)
      [] v = "lore"   -> PackedLore(tokenId)
      [] v = "cyber"  -> PackedCyber(tokenId)
      [] v = "neon"   -> PackedNeon(tokenId)

\* The hex digits keccak256 returns, most significant first (the model keeps the
\* four lowest digits of the 64).
HexSeeds ==
    { <<d3, d2, d1, d0>> : d3 \in 0 .. MaxTopNibble, d2 \in 0 .. 15, d1 \in 0 .. 15, d0 \in 0 .. 15 }

\* The hex digits of a number below 16^4
HexOf(n) == << (n \div 4096) % 16, (n \div 256) % 16, (n \div 16) % 16, n % 16 >>

\* BigInt(seedHex): the value of a string of hex digits
RECURSIVE BigIntOfHex(_)
BigIntOfHex(hex) ==
    IF hex = << >> THEN 0
    ELSE BigIntOfHex(SubSeq(hex, 1, Len(hex) - 1)) * 16 + hex[Len(hex)]

\* seed >> k on a BigInt: k halvings
RECURSIVE ShiftRight(_, _)
ShiftRight(n, k) == IF k = 0 THEN n ELSE ShiftRight(n \div 2, k - 1)

---------------------------------------------------------------------------
(* Trait derivation: the lines after the hash in each Virus3D *)

ALIGNMENTS == <<"Symbiotic", "Parasitic">>

MUTATIONS_SYM == <<"Neural-Linker", "Muscle-Weaver", "Cell-Regenerator", "Gene-Purifier">>

MUTATIONS_PAR == <<"Void-Rot", "Blood-Boil", "Neural-Decay", "Cell-Rupture">>

\* A JavaScript array read: arr[idx] is undefined outside the array
ArrayGet(arr, idx) == IF idx + 1 \in DOMAIN arr THEN arr[idx + 1] ELSE "undefined"

\* The rugged derivation with the spike count taken modulo 8
TraitsRuggedMod8(seedHex) ==
    LET seed == BigIntOfHex(seedHex)
        alignIdx == ShiftRight(seed, 8) % 2
    IN  [ seed       |-> seed,
          hue        |-> seed % 360,
          spikeCount |-> 6 + (seed % 8),
          alignIdx   |-> alignIdx,
          alignment  |-> ArrayGet(ALIGNMENTS, alignIdx),
          spikeSeed  |-> seed % 100000 ]

TraitsRugged(seedHex) ==
    LET seed == BigIntOfHex(seedHex)
        alignIdx == ShiftRight(seed, 8) % 2
    IN  [ seed       |-> seed,
          hue        |-> seed % 360,
          spikeCount |-> 6 + (seed % 7),
          alignIdx   |-> alignIdx,
          alignment  |-> ArrayGet(ALIGNMENTS, alignIdx),
          spikeSeed  |-> seed % 100000 ]

TraitsRing(seedHex) ==
    LET seed == BigIntOfHex(seedHex)
        alignIdx == ShiftRight(seed, 8) % 2
    IN  [ seed       |-> seed,
          hue        |-> seed % 360,
          spikeCount |-> 6 + (seed % 7),
          alignIdx   |-> alignIdx,
          alignment  |-> ArrayGet(ALIGNMENTS, alignIdx),
          spikeSeed  |-> seed % 100000 ]

TraitsNeon(seedHex) ==
    LET seed == BigIntOfHex(seedHex)
        alignIdx == ShiftRight(seed, 8) % 2
    IN  [ seed       |-> seed,
          hue        |-> seed % 360,
          spikeCount |-> 6 + (seed % 7),
          alignIdx   |-> alignIdx,
          alignment  |-> ArrayGet(ALIGNMENTS, alignIdx),
          spikeSeed  |-> seed % 100000 ]

TraitsStyle(seedHex) ==
    LET seed == BigIntOfHex(seedHex)
    IN  [ seed        |-> seed,
          hue         |-> seed % 360,
          spikeCount  |-> 6 + (seed % 7),
          spikeStyle  |-> ShiftRight(seed, 12) % 3,
          nucleusType |-> ShiftRight(seed, 4) % 3,
          hasAura     |-> (seed % 10) > 3,
          spikeSeed   |-> seed % 1000000 ]

\* The lore derivation with the alignment read four bits too low
TraitsLoreShift4(seedHex) ==
    LET seed == BigIntOfHex(seedHex)
        alignIdx == ShiftRight(seed, 4) % 2
    IN  [ seed       |-> seed,
          hue        |-> seed % 360,
          spikeCount |-> 6 + (seed % 7),
          alignIdx   |-> alignIdx,
          mutIdx     |-> ShiftRight(seed, 12) % 4,
          alignment  |-> ArrayGet(ALIGNMENTS, alignIdx),
          spikeSeed  |-> seed % 100000 ]

TraitsLore(seedHex) ==
    LET seed == BigIntOfHex(seedHex)
        alignIdx == ShiftRight(seed, 8) % 2
    IN  [ seed       |-> seed,
          hue        |-> seed % 360,
          spikeCount |-> 6 + (seed % 7),
          alignIdx   |-> alignIdx,
          mutIdx     |-> ShiftRight(seed, 12) % 4,
          alignment  |-> ArrayGet(ALIGNMENTS, alignIdx),
          spikeSeed  |-> seed % 100000 ]

\* The name lookup with the two name lists exchanged
MutationNameSwapped(alignment, mutIdx) ==
    IF alignment = "Symbiotic" THEN ArrayGet(MUTATIONS_PAR, mutIdx)
                               ELSE ArrayGet(MUTATIONS_SYM, mutIdx)

\* The mutation name: alignment === 'Symbiotic' ? MUTATIONS_SYM[mutIdx] : MUTATIONS_PAR[mutIdx]
MutationName(alignment, mutIdx) ==
    IF alignment = "Symbiotic" THEN ArrayGet(MUTATIONS_SYM, mutIdx)
                               ELSE ArrayGet(MUTATIONS_PAR, mutIdx)

\* The cyber derivation with the shift of the mutation index forgotten
TraitsCyberNoShift(seedHex) ==
    LET seed == BigIntOfHex(seedHex)
        alignIdx == ShiftRight(seed, 8) % 2
        mutIdx == seed % 4
        alignment == ArrayGet(ALIGNMENTS, alignIdx)
    IN  [ seed       |-> seed,
          hue        |-> seed % 360,
          spikeCount |-> 6 + (seed % 7),
          alignIdx   |-> alignIdx,
          mutIdx     |-> mutIdx,
          alignment  |-> alignment,
          mutation   |-> MutationName(alignment, mutIdx),
          spikeSeed  |-> seed % 1000000 ]

TraitsCyber(seedHex) ==
    LET seed == BigIntOfHex(seedHex)
        alignIdx == ShiftRight(seed, 8) % 2
        mutIdx == ShiftRight(seed, 12) % 4
        alignment == ArrayGet(ALIGNMENTS, alignIdx)
    IN  [ seed       |-> seed,
          hue        |-> seed % 360,
          spikeCount |-> 6 + (seed % 7),
          alignIdx   |-> alignIdx,
          mutIdx     |-> mutIdx,
          alignment  |-> alignment,
          mutation   |-> MutationName(alignment, mutIdx),
          spikeSeed  |-> seed % 1000000 ]

DecodeTraits(v, seedHex) ==
    CASE v = "rugged" -> TraitsRugged(seedHex)
      [] v = "ring"   -> TraitsRing(seedHex)
      [] v = "style"  -> TraitsStyle(seedHex)
      [] v = "lore"   -> TraitsLore(seedHex)
      [] v = "cyber"  -> TraitsCyber(seedHex)
      [] v = "neon"   -> TraitsNeon(seedHex)

---------------------------------------------------------------------------
(* Palettes.  A colour `hsl(h, s%, l%)` is the triple <<h, s, l>>; an opacity *)
(* is in tenths.                                                            *)

Hsl(h, s, l) == <<h, s, l>>

\* getPalette with the complement left unreduced
getPaletteNoWrap(hue, alignment) ==
    LET primaryHue == hue
        secondaryHue == hue + 180
    IN  [ primary     |-> Hsl(primaryHue, 100, 50),
          primaryGlow |-> Hsl(primaryHue, 100, 60),
          secondary   |-> Hsl(secondaryHue, 90, 65),
          opacity     |-> IF alignment = "Parasitic" THEN 10 ELSE 9 ]

\* src/components/Virus3D.tsx (rugged)
getPalette(hue, alignment) ==
    LET primaryHue == hue
        secondaryHue == (hue + 180) % 360
    IN  [ primary     |-> Hsl(primaryHue, 100, 50),
          primaryGlow |-> Hsl(primaryHue, 100, 60),
          secondary   |-> Hsl(secondaryHue, 90, 65),
          opacity     |-> IF alignment = "Parasitic" THEN 10 ELSE 9 ]

getPaletteRing(hue, alignment) ==
    LET primaryHue == hue
        secondaryHue == (hue + 180) % 360
    IN  [ primary       |-> Hsl(primaryHue, 90, 60),
          primaryGlow   |-> Hsl(primaryHue, 100, 80),
          body          |-> Hsl(secondaryHue, 60, 40),
          bodyHighlight |-> Hsl(secondaryHue, 80, 60),
          opacity       |-> IF alignment = "Parasitic" THEN 9 ELSE 7 ]

getPaletteNeon(hue, alignment) ==
    LET primaryHue == hue
        secondaryHue == (hue + 180) % 360
    IN  [ primary |-> Hsl(primaryHue, 100, 50),
          body    |-> Hsl(secondaryHue, 80, 25),
          glow    |-> Hsl(primaryHue, 100, 60),
          opacity |-> IF alignment = "Parasitic" THEN 10 ELSE 8 ]

getColors(hue) ==
    [ main   |-> Hsl(hue, 70, 40),
      dark   |-> Hsl(hue, 70, 18),
      glow   |-> Hsl((hue + 180) % 360, 80, 60),
      accent |-> Hsl((hue + 40) % 360, 90, 65) ]

\* getPalette of the lore variant with the Symbiotic colours for both alignments
getPaletteLoreOneBranch(hue, alignment) ==
    [ body   |-> Hsl(hue, 60, 45),
      veins  |-> Hsl(hue, 90, 65),
      core   |-> Hsl((hue + 180) % 360, 100, 85),
      spikes |-> Hsl(hue, 50, 30),
      tips   |-> Hsl((hue + 40) % 360, 90, 60),
      aura   |-> Hsl(hue, 80, 50) ]

getPaletteLore(hue, alignment) ==
    IF alignment = "Symbiotic"
    THEN [ body   |-> Hsl(hue, 60, 45),
           veins  |-> Hsl(hue, 90, 65),
           core   |-> Hsl((hue + 180) % 360, 100, 85),
           spikes |-> Hsl(hue, 50, 30),
           tips   |-> Hsl((hue + 40) % 360, 90, 60),
           aura   |-> Hsl(hue, 80, 50) ]
    ELSE [ body   |-> Hsl(hue, 50, 20),
           veins  |-> Hsl((hue + 300) % 360, 100, 50),
           core   |-> Hsl(hue, 100, 50),
           spikes |-> Hsl(hue, 20, 10),
           tips   |-> Hsl((hue + 180) % 360, 100, 50),
           aura   |-> Hsl((hue + 320) % 360, 90, 40) ]

getPaletteCyber(hue, alignment) ==
    LET cMain == Hsl(hue, 70, 50)
        cDark == Hsl(hue, 60, 25)
        cGlow == Hsl((hue + 180) % 360, 80, 70)
        cAccent == Hsl((hue + 30) % 360, 90, 60)
    IN  IF alignment = "Symbiotic"
        THEN [ body      |-> cMain,
               bodyInner |-> Hsl(hue, 70, 35),
               dark      |-> cDark,
               glow      |-> cGlow,
               accent    |-> cAccent,
               grid      |-> Hsl((hue + 200) % 360, 90, 65) ]
        ELSE [ body      |-> Hsl(hue, 80, 30),
               bodyInner |-> Hsl(hue, 80, 22),
               dark      |-> Hsl(hue, 85, 12),
               glow      |-> Hsl((hue + 200) % 360, 90, 65),
               accent    |-> Hsl((hue + 330) % 360, 95, 65),
               grid      |-> Hsl((hue + 30) % 360, 90, 70) ]

\* The palette function of each variant ("style" has getColors(hue) and no alignment)
PaletteOf(v, hue, alignment) ==
    CASE v = "rugged" -> getPalette(hue, alignment)
      [] v = "ring"   -> getPaletteRing(hue, alignment)
      [] v = "style"  -> getColors(hue)
      [] v = "lore"   -> getPaletteLore(hue, alignment)
      [] v = "cyber"  -> getPaletteCyber(hue, alignment)
      [] v = "neon"   -> getPaletteNeon(hue, alignment)

\* The colour roles of a palette record (all its fields but the opacity)
ColourRoles(p) == DOMAIN p \ {"opacity"}

---------------------------------------------------------------------------
(* Surface displacement and spike placement *)

\* Math.PI * (3 - Math.sqrt(5)), the golden angle, in micro-radians
phiMagic == 2399963

\* (2 * Math.PI) / ((1 + Math.sqrt(5)) / 2), the angle step of the Spikes loops, in micro-radians
TurnOverPhi == 3883222

getRuggedDisplacement(theta, phi) ==
    LET lobe == Mul(Sin(theta * 5), Cos(phi * 5))
        micro == Cos(theta * 20 + phi * 10)
    IN  (lobe * 15) \div 100 + (micro * 3) \div 100

\* Math.sqrt(v) is NaN for a negative v and Math.acos(c) is NaN for c outside
\* -1..1; no exception is thrown, the NaN flows into the coordinates.  Sqrt and
\* Acos give a number for every argument, so each spike carries a flag nan that
\* tells whether Math.sqrt or Math.acos of its iteration produced NaN.
IsNaNSqrt(v) == v < 0

IsNaNAcos(c) == c < -Scale \/ c > Scale

\* THREE.Vector3.normalize()
Normalize(p) ==
    LET n == Norm(p)
    IN  IF n = 0 THEN <<0, 0, 0>>
        ELSE << (p[1] * Scale) \div n, (p[2] * Scale) \div n, (p[3] * Scale) \div n >>

\* THREE.Vector3.multiplyScalar(k), k in hundredths
MultiplyScalar(p, k) == << (p[1] * k) \div 100, (p[2] * k) \div 100, (p[3] * k) \div 100 >>

\* The rotation new Euler().setFromQuaternion(new Quaternion().setFromUnitVectors((0,1,0), d))
\* takes the up axis to the unit vector d: it is kept as d.
RotationTo(d) == d

\* The loop body with i / (count - 1) done as an integer division
RuggedSpikeIntDiv(count, i) ==
    LET y == Scale - (i \div (count - 1)) * 2 * Scale
        radiusAtY == Sqrt(Scale - Mul(y, y))
        theta == phiMagic * i
        phi == Acos(y)
        displacement == getRuggedDisplacement(theta, phi)
        surfaceRadius == Scale + displacement
        x == Mul(Mul(surfaceRadius, Cos(theta)), radiusAtY)
        z == Mul(Mul(surfaceRadius, Sin(theta)), radiusAtY)
        yPos == Mul(y, surfaceRadius)
        pos == <<x, yPos, z>>
    IN  [ pos |-> pos, rot |-> RotationTo(Normalize(pos)), nan |-> IsNaNSqrt(Scale - Mul(y, y)) \/ IsNaNAcos(y) ]

\* One iteration of the loop of ParticleSpikes in src/components/Virus3D.tsx (rugged)
RuggedSpike(count, i) ==
    LET y == Scale - (i * 2 * Scale) \div (count - 1)
        radiusAtY == Sqrt(Scale - Mul(y, y))
        theta == phiMagic * i
        phi == Acos(y)
        displacement == getRuggedDisplacement(theta, phi)
        surfaceRadius == Scale + displacement
        x == Mul(Mul(surfaceRadius, Cos(theta)), radiusAtY)
        z == Mul(Mul(surfaceRadius, Sin(theta)), radiusAtY)
        yPos == Mul(y, surfaceRadius)
        pos == <<x, yPos, z>>
    IN  [ pos |-> pos, rot |-> RotationTo(Normalize(pos)), nan |-> IsNaNSqrt(Scale - Mul(y, y)) \/ IsNaNAcos(y) ]

ParticleSpikes(count, seed) == [ n \in 1 .. count |-> RuggedSpike(count, n - 1) ]

\* One iteration of the loop of ParticleSpikes in the ring variant
\* (first with count - 2 as the divisor)
RingSpikeShortDivisor(count, i) ==
    LET y == Scale - (i * 2 * Scale) \div (count - 2)
        radius == Sqrt(Scale - Mul(y, y))
        theta == phiMagic * i
        x == Mul(Cos(theta), radius)
        z == Mul(Sin(theta), radius)
        pos == Normalize(<<x, y, z>>)
    IN  [ pos |-> pos, rot |-> RotationTo(pos), nan |-> IsNaNSqrt(Scale - Mul(y, y)) ]

RingSpike(count, i) ==
    LET y == Scale - (i * 2 * Scale) \div (count - 1)
        radius == Sqrt(Scale - Mul(y, y))
        theta == phiMagic * i
        x == Mul(Cos(theta), radius)
        z == Mul(Sin(theta), radius)
        pos == Normalize(<<x, y, z>>)
    IN  [ pos |-> pos, rot |-> RotationTo(pos), nan |-> IsNaNSqrt(Scale - Mul(y, y)) ]

ParticleSpikesRing(count, seed) == [ n \in 1 .. count |-> RingSpike(count, n - 1) ]

\* One iteration of the loop of ParticleSpikes in the neon variant
NeonSpike(count, i) ==
    LET y == Scale - (i * 2 * Scale) \div (count - 1)
        radius == Sqrt(Scale - Mul(y, y))
        theta == phiMagic * i
        x == Mul(Cos(theta), radius)
        z == Mul(Sin(theta), radius)
        pos == Normalize(<<x, y, z>>)
    IN  [ pos |-> pos, rot |-> RotationTo(pos), nan |-> IsNaNSqrt(Scale - Mul(y, y)) ]

ParticleSpikesNeon(count, seed) == [ n \in 1 .. count |-> NeonSpike(count, n - 1) ]

\* The length variance taken modulo 101
lenVarMod101(seed, i) == (((seed + i * 13) % 101) * Scale) \div 100

\* const lenVar = ((seed + i * 13) % 100) / 100
lenVar(seed, i) == (((seed + i * 13) % 100) * Scale) \div 100

\* const length = 1 + lenVar * 0.4
length(seed, i) == Scale + (lenVar(seed, i) * 4) \div 10

\* One iteration of the loop of SpikeArray (lore)
LoreSpike(count, seed, i) ==
    LET y == Scale - (i * 2 * Scale) \div (count - 1)
        radius == Sqrt(Scale - Mul(y, y))
        theta == phiMagic * i
        x == Mul(Cos(theta), radius)
        z == Mul(Sin(theta), radius)
        pos == Normalize(<<x, y, z>>)
    IN  [ pos |-> pos, rot |-> RotationTo(pos), length |-> length(seed, i),
          nan |-> IsNaNSqrt(Scale - Mul(y, y)) ]

SpikeArray(count, seed) == [ n \in 1 .. count |-> LoreSpike(count, seed, n - 1) ]

\* Math.sin(seed + i * k), seed an integer number of radians, k in hundredths of a radian
SinOfSeed(seed, i, k) == Sin(ModMul(seed, AngleUnit, TWO_PI) + i * k * (AngleUnit \div 100))

\* One iteration of the loop of Spikes in the style variant
StyleSpike(count, seed, i) ==
    LET radius == (9 * Scale) \div 10
        theta == TurnOverPhi * i
        phiAng == Acos(Scale - ((2 * i + 1) * Scale) \div count)
        x == Mul(Mul(radius, Sin(phiAng)), Cos(theta))
        y == Mul(Mul(radius, Sin(phiAng)), Sin(theta))
        z == Mul(radius, Cos(phiAng))
        base == <<x, y, z>>
        rand == ((SinOfSeed(seed, i, 1337) + Scale) \div 2) \div 2 + (8 * Scale) \div 10
    IN  [ pos |-> MultiplyScalar(base, 102), rot |-> RotationTo(Normalize(base)), length |-> rand,
          nan |-> IsNaNAcos(Scale - ((2 * i + 1) * Scale) \div count) ]

Spikes(count, seed) == [ n \in 1 .. count |-> StyleSpike(count, seed, n - 1) ]

\* One iteration of the loop of Spikes in the cyber variant
CyberSpike(count, seed, i) ==
    LET radius == (11 * Scale) \div 10
        theta == TurnOverPhi * i
        phiAng == Acos(Scale - ((2 * i + 1) * Scale) \div count)
        x == Mul(Mul(radius, Sin(phiAng)), Cos(theta))
        y == Mul(Mul(radius, Sin(phiAng)), Sin(theta))
        z == Mul(radius, Cos(phiAng))
        base == <<x, y, z>>
        rand == (((SinOfSeed(seed, i, 1730) + Scale) \div 2) * 7) \div 10 + (9 * Scale) \div 10
    IN  [ pos |-> MultiplyScalar(base, 103), rot |-> RotationTo(Normalize(base)), length |-> rand,
          nan |-> IsNaNAcos(Scale - ((2 * i + 1) * Scale) \div count) ]

SpikesCyber(count, seed) == [ n \in 1 .. count |-> CyberSpike(count, seed, n - 1) ]

\* The spike placement of each variant
PlaceSpikes(v, count, seed) ==
    CASE v = "rugged" -> ParticleSpikes(count, seed)
      [] v = "ring"   -> ParticleSpikesRing(count, seed)
      [] v = "style"  -> Spikes(count, seed)
      [] v = "lore"   -> SpikeArray(count, seed)
      [] v = "cyber"  -> SpikesCyber(count, seed)
      [] v = "neon"   -> ParticleSpikesNeon(count, seed)

---------------------------------------------------------------------------
(* The shape of a spike, the distortion of the body and the coefficients of   *)
(* the frame callback.  Rates, frequencies, amplitudes and scales are in      *)
(* hundredths.                                                                *)

\* rugged, ring, neon: every spike is <SingleSpikeCloud palette={palette} />
SingleSpikeCloud == "SingleSpikeCloud"

\* style: SpikeGeometry draws a club, a needle or an antenna by the style prop
SpikeGeometry(style) ==
    IF style = 0 THEN "club"
    ELSE IF style = 1 THEN "needle"
    ELSE "antenna"

\* lore: SpikeModel puts a cone (Cylinder with top radius 0) on the stalk of a
\* Parasitic spike and an Icosahedron on a Symbiotic one
SpikeModel(alignment) ==
    LET isPara == alignment = "Parasitic"
    IN  IF isPara THEN "cone" ELSE "icosahedron"

\* cyber: SpikeShape draws a club for Symbiotic and a needle with a ring otherwise
SpikeShape(alignment) ==
    LET isSym == alignment = "Symbiotic"
    IN  IF isSym THEN "club" ELSE "needle-antenna"

\* A spike shape chosen by the mutation index instead of the alignment
SpikeFamilyByMutation(v, traits) ==
    CASE v \in {"rugged", "ring", "neon"} -> SingleSpikeCloud
      [] v = "style" -> SpikeGeometry(traits.spikeStyle)
      [] v = "lore"  -> IF traits.mutIdx >= 2 THEN "cone" ELSE "icosahedron"
      [] v = "cyber" -> SpikeShape(traits.alignment)

\* The geometry family of the spikes a variant draws for the traits
SpikeFamily(v, traits) ==
    CASE v \in {"rugged", "ring", "neon"} -> SingleSpikeCloud
      [] v = "style" -> SpikeGeometry(traits.spikeStyle)
      [] v = "lore"  -> SpikeModel(traits.alignment)
      [] v = "cyber" -> SpikeShape(traits.alignment)

\* The distort and speed props of the MeshDistortMaterial of the body
\* (ViralMembrane in the lore variant, VirusBody in the cyber variant, the main
\* body of the style variant); the particle variants have no such material.
ViralMembrane(alignment) ==
    LET isPara == alignment = "Parasitic"
    IN  [ distort |-> IF isPara THEN 60 ELSE 40, speed |-> IF isPara THEN 300 ELSE 150 ]

VirusBody(mutation) ==
    [ distort |-> IF mutation = "Neural-Linker" \/ mutation = "Neural-Decay" THEN 60 ELSE 40,
      speed   |-> IF mutation = "Blood-Boil" \/ mutation = "Cell-Rupture" THEN 240 ELSE 170 ]

Distortion(v, traits) ==
    CASE v \in {"rugged", "ring", "neon"} -> [ distort |-> 0, speed |-> 0 ]
      [] v = "style" -> [ distort |-> 45, speed |-> 180 ]
      [] v = "lore"  -> ViralMembrane(traits.alignment)
      [] v = "cyber" -> VirusBody(traits.mutation)

\* The numbers of the useFrame callback of Virus3D:
\*   rotation.y = t * spin, rotation[wobbleAxis] = sin(t * wobbleFreq) * wobbleAmp,
\*   scale = baseScale * (1 + sin(t * pulseFreq) * pulseAmp), its y times squash
FrameRugged ==
    [ spin |-> 12, wobbleAxis |-> 3, wobbleFreq |-> 20, wobbleAmp |-> 5,
      pulseFreq |-> 150, pulseAmp |-> 2, baseScale |-> 180, squash |-> 100 ]

FrameRing ==
    [ spin |-> 10, wobbleAxis |-> 3, wobbleFreq |-> 15, wobbleAmp |-> 5,
      pulseFreq |-> 150, pulseAmp |-> 2, baseScale |-> 180, squash |-> 100 ]

FrameNeon ==
    [ spin |-> 10, wobbleAxis |-> 3, wobbleFreq |-> 15, wobbleAmp |-> 5,
      pulseFreq |-> 200, pulseAmp |-> 2, baseScale |-> 180, squash |-> 100 ]

FrameStyle ==
    [ spin |-> 25, wobbleAxis |-> 3, wobbleFreq |-> 40, wobbleAmp |-> 20,
      pulseFreq |-> 140, pulseAmp |-> 6, baseScale |-> 100, squash |-> 104 ]

\* The lore callback with the beat chosen by the mutation index
FrameLoreByMutation(traits) ==
    LET beatFreq == IF traits.mutIdx >= 2 THEN 250 ELSE 120
        beatAmp == 5
    IN  [ spin |-> 15, wobbleAxis |-> 3, wobbleFreq |-> 20, wobbleAmp |-> 10,
          pulseFreq |-> beatFreq, pulseAmp |-> beatAmp, baseScale |-> 150, squash |-> 100 ]

FrameLore(traits) ==
    LET beatFreq == IF traits.alignment = "Parasitic" THEN 250 ELSE 120
        beatAmp == 5
    IN  [ spin |-> 15, wobbleAxis |-> 3, wobbleFreq |-> 20, wobbleAmp |-> 10,
          pulseFreq |-> beatFreq, pulseAmp |-> beatAmp, baseScale |-> 150, squash |-> 100 ]

FrameCyber ==
    [ spin |-> 25, wobbleAxis |-> 1, wobbleFreq |-> 35, wobbleAmp |-> 15,
      pulseFreq |-> 160, pulseAmp |-> 8, baseScale |-> 210, squash |-> 100 ]

FrameCoefficients(v, traits) ==
    CASE v = "rugged" -> FrameRugged
      [] v = "ring"   -> FrameRing
      [] v = "style"  -> FrameStyle
      [] v = "lore"   -> FrameLore(traits)
      [] v = "cyber"  -> FrameCyber
      [] v = "neon"   -> FrameNeon

\* What a render of Virus3D hands to its children besides palette and spikes
Describe(v, traits) ==
    [ family     |-> SpikeFamily(v, traits),
      distortion |-> Distortion(v, traits),
      frame      |-> FrameCoefficients(v, traits) ]

---------------------------------------------------------------------------
(* A mounted Virus3D: one render of the component and of its spike child *)

Slots == {"a", "b"}

Unmounted == [ mounted |-> FALSE ]

\* The hash values the component specification draws from: two seeds of hue 0
\* and alignment Symbiotic with different spike counts (0, 720), the same hue
\* with alignment Parasitic (360), seeds of other hues, mutations and counts,
\* and a seed with the spike count of seed 0 and another hue and seed prop (7).
SeedSamples == { HexOf(0), HexOf(720), HexOf(360), HexOf(12345), HexOf(5000), HexOf(7) }

\* A dependency list that forgets the alignment: [hue]
PaletteDepsHueOnly(v, traits) == <<traits.hue>>

\* The dependency list of useMemo(() => getPalette(hue, alignment), [hue, alignment])
PaletteDeps(v, traits) ==
    IF v = "style" THEN <<traits.hue>> ELSE <<traits.hue, traits.alignment>>

\* A dependency list [count] for every placement loop
SpikesDepsCountOnly(v, traits) == <<traits.spikeCount>>

\* The dependency list of the useMemo around the placement loop: [count] or [count, seed]
SpikesDeps(v, traits) ==
    IF v \in {"rugged", "ring", "neon"} THEN <<traits.spikeCount>>
    ELSE <<traits.spikeCount, traits.spikeSeed>>

\* React's useMemo: the cached value while the dependencies are those of the last render
UseMemo(prev, cell, deps, value) ==
    IF prev.mounted /\ prev[cell].deps = deps THEN prev[cell] ELSE [ deps |-> deps, value |-> value ]

\* The placement loop is a pure function of its props: its results for the hash
\* values of SeedSamples are computed once and looked up by the renders.
PlacedSpikes ==
    [ v \in Variants, seedHex \in SeedSamples |->
        LET traits == DecodeTraits(v, seedHex)
        IN  PlaceSpikes(v, traits.spikeCount, traits.spikeSeed) ]

\* A render that derives the traits once per instance, as useMemo(() => ..., [])
\* would: a prop change keeps the traits of the first token id.
RenderTraitsOnce(v, tokenId, seedHex, prev) ==
    LET traits == IF prev.mounted THEN prev.traits ELSE DecodeTraits(v, seedHex)
        alignment == IF v = "style" THEN "none" ELSE traits.alignment
    IN  [ mounted  |-> TRUE,
          variant  |-> v,
          tokenId  |-> tokenId,
          packed   |-> PackedInput(v, tokenId),
          seedHex  |-> seedHex,
          traits   |-> traits,
          palette  |-> UseMemo(prev, "palette", PaletteDeps(v, traits),
                               PaletteOf(v, traits.hue, alignment)),
          spikes   |-> UseMemo(prev, "spikes", SpikesDeps(v, traits),
                               PlaceSpikes(v, traits.spikeCount, traits.spikeSeed)) ]

\* One render of Virus3D and of its spikes child, for the hash value seedHex of the
\* packed input; prev is the state the instance kept from its last render.
Render(v, tokenId, seedHex, prev) ==
    LET traits == DecodeTraits(v, seedHex)
        alignment == IF v = "style" THEN "none" ELSE traits.alignment
    IN  [ mounted  |-> TRUE,
          variant  |-> v,
          tokenId  |-> tokenId,
          packed   |-> PackedInput(v, tokenId),
          seedHex  |-> seedHex,
          traits   |-> traits,
          palette  |-> UseMemo(prev, "palette", PaletteDeps(v, traits),
                               PaletteOf(v, traits.hue, alignment)),
          spikes   |-> UseMemo(prev, "spikes", SpikesDeps(v, traits),
                               PlacedSpikes[v, seedHex]) ]

\* keccak256(packed): the value already fixed for this input, or any value for a new input
Keccak256(packed, seedHex) ==
    \/ /\ packed \in DOMAIN keccak
       /\ seedHex = keccak[packed]
       /\ UNCHANGED keccak
    \/ /\ packed \notin DOMAIN keccak
       /\ seedHex \in SeedSamples
       /\ keccak' = (packed :> seedHex) @@ keccak

\* A Virus3D of variant v is mounted with the prop tokenId
Mount(slot, v, tokenId) ==
    /\ ~comp[slot].mounted
    /\ \E seedHex \in SeedSamples :
          /\ Keccak256(PackedInput(v, tokenId), seedHex)
          /\ comp' = [comp EXCEPT ![slot] = Render(v, tokenId, seedHex, Unmounted)]
    /\ UNCHANGED <<call, ret>>

\* The parent re-renders a mounted Virus3D with the prop tokenId (the same or another)
SetTokenId(slot, tokenId) ==
    /\ comp[slot].mounted
    /\ \E seedHex \in SeedSamples :
          /\ Keccak256(PackedInput(comp[slot].variant, tokenId), seedHex)
          /\ comp' = [comp EXCEPT ![slot] = Render(comp[slot].variant, tokenId, seedHex, comp[slot])]
    /\ UNCHANGED <<call, ret>>

Unmount(slot) ==
    /\ comp[slot].mounted
    /\ comp' = [comp EXCEPT ![slot] = Unmounted]
    /\ UNCHANGED <<keccak, call, ret>>

NoCall == [ fn |-> "none" ]

Pending == [ done |-> FALSE ]

Init ==
    /\ keccak = << >>
    /\ comp = [ slot \in Slots |-> Unmounted ]
    /\ call = NoCall
    /\ ret = Pending

Next ==
    \/ \E slot \in Slots, v \in Variants, tokenId \in TokenIds : Mount(slot, v, tokenId)
    \/ \E slot \in Slots, tokenId \in TokenIds : SetTokenId(slot, tokenId)
    \/ \E slot \in Slots : Unmount(slot)

Spec == Init /\ [][Next]_vars

---------------------------------------------------------------------------
(* The pure functions applied to every input of a bounded set *)

Alignments == {"Symbiotic", "Parasitic"}

\* The seed props the placement is called with
SeedProps == {0, 12345, 99999}

InitTraits ==
    /\ keccak = << >>
    /\ comp = [ slot \in Slots |-> Unmounted ]
    /\ call \in [ fn : {"traits"}, variant : Variants, seedHex : HexSeeds ]
    /\ ret = Pending

ApplyTraits ==
    /\ call.fn = "traits"
    /\ ~ret.done
    /\ ret' = [ done |-> TRUE, value |-> DecodeTraits(call.variant, call.seedHex) ]
    /\ UNCHANGED <<keccak, comp, call>>

SpecTraits == InitTraits /\ [][ApplyTraits]_vars

InitPalette ==
    /\ keccak = << >>
    /\ comp = [ slot \in Slots |-> Unmounted ]
    /\ call \in [ fn : {"palette"}, variant : Variants, hue : 0 .. 359, alignment : Alignments ]
    /\ ret = Pending

ApplyPalette ==
    /\ call.fn = "palette"
    /\ ~ret.done
    /\ ret' = [ done |-> TRUE, value |-> PaletteOf(call.variant, call.hue, call.alignment) ]
    /\ UNCHANGED <<keccak, comp, call>>

SpecPalette == InitPalette /\ [][ApplyPalette]_vars

InitPlace ==
    /\ keccak = << >>
    /\ comp = [ slot \in Slots |-> Unmounted ]
    /\ call \in [ fn : {"place"}, variant : Variants, count : 6 .. 12, seed : SeedProps ]
    /\ ret = Pending

ApplyPlace ==
    /\ call.fn = "place"
    /\ ~ret.done
    /\ ret' = [ done |-> TRUE, value |-> PlaceSpikes(call.variant, call.count, call.seed) ]
    /\ UNCHANGED <<keccak, comp, call>>

SpecPlace == InitPlace /\ [][ApplyPlace]_vars

\* The width of a uint256, scaled with the width of a double
UintBits == MantissaBits + 2

\* The largest uint256
MaxUint == 2 ^ UintBits - 1

\* The token ids the contract can return from tokenOfOwnerByIndex
ChainIds == 0 .. MaxUint

RECURSIVE BitLength(_)
BitLength(n) == IF n = 0 THEN 0 ELSE 1 + BitLength(n \div 2)

\* Number(tokenId) of a bigint: the nearest double, ties to the even mantissa
ToNumber(n) ==
    LET shift == BitLength(n) - MantissaBits
    IN  IF shift <= 0 THEN n
        ELSE LET unit == 2 ^ shift
                 q == n \div unit
                 r == n % unit
                 up == (2 * r > unit) \/ (2 * r = unit /\ q % 2 = 1)
             IN  (IF up THEN q + 1 ELSE q) * unit

\* The viewer page reads a token id from the contract, keeps Number(tokenId) in
\* ownedTokens and hands it to Virus3D as the tokenId prop; Virus3D packs
\* BigInt(tokenId), which is exact for the integer the double holds, and
\* encodePacked throws IntegerOutOfRangeError for a value above the uint256 range.
ViewToken(v, chainId) ==
    LET id == ToNumber(chainId)
    IN  IF id > MaxUint
        THEN [ error |-> TRUE, tokenId |-> id ]
        ELSE [ error |-> FALSE, tokenId |-> id, packed |-> PackedInput(v, id) ]

InitView ==
    /\ keccak = << >>
    /\ comp = [ slot \in Slots |-> Unmounted ]
    /\ call \in [ fn : {"view"}, variant : Variants, chainId : ChainIds ]
    /\ ret = Pending

ApplyView ==
    /\ call.fn = "view"
    /\ ~ret.done
    /\ ret' = [ done |-> TRUE, value |-> ViewToken(call.variant, call.chainId) ]
    /\ UNCHANGED <<keccak, comp, call>>

SpecView == InitView /\ [][ApplyView]_vars

\* Organisms computed side by side.  Each worker has a job (variant, tokenId)
\* and the locals of its own call; work maps every worker to its locals.  The
\* steps are the statements of Virus3D and of its spikes child in their order:
\* the hash, the traits, the palette, the placement.
StepHash(work, job, slot, seedHex) ==
    [ pc |-> "traits", packed |-> PackedInput(job.variant, job.tokenId), seedHex |-> seedHex ]

StepTraits(work, job, slot) ==
    [ work[slot] EXCEPT !.pc = "palette" ]
        @@ [ traits |-> DecodeTraits(job.variant, work[slot].seedHex) ]

\* (first a palette step that takes the traits from a variable all workers share)
StepPaletteSharedTraits(work, job, slot) ==
    LET others == { t \in DOMAIN work \ {slot} : "traits" \in DOMAIN work[t] }
        traits == IF others = {} THEN work[slot].traits ELSE work[CHOOSE t \in others : TRUE].traits
    IN  [ work[slot] EXCEPT !.pc = "spikes" ]
            @@ [ palette |-> PaletteOf(job.variant, traits.hue,
                                       IF "alignment" \in DOMAIN traits THEN traits.alignment ELSE "none") ]

StepPalette(work, job, slot) ==
    LET traits == work[slot].traits
        alignment == IF job.variant = "style" THEN "none" ELSE traits.alignment
    IN  [ work[slot] EXCEPT !.pc = "spikes" ]
            @@ [ palette |-> PaletteOf(job.variant, traits.hue, alignment) ]

StepSpikes(work, job, slot) ==
    [ work[slot] EXCEPT !.pc = "done" ]
        @@ [ spikes |-> PlacedSpikes[job.variant, work[slot].seedHex] ]

InitWorkers ==
    /\ keccak = << >>
    /\ comp = [ slot \in Slots |-> Unmounted ]
    /\ call \in [ fn : {"organisms"}, jobs : [ Slots -> [ variant : Variants, tokenId : TokenIds ] ] ]
    /\ ret = [ done |-> FALSE, work |-> [ slot \in Slots |-> [ pc |-> "hash" ] ] ]

\* The result of a step of one worker is stored in that worker's locals
Store(slot, locals) ==
    LET work == [ ret.work EXCEPT ![slot] = locals ]
    IN  ret' = [ done |-> \A t \in Slots : work[t].pc = "done", work |-> work ]

WorkerHash(slot) ==
    /\ call.fn = "organisms"
    /\ ret.work[slot].pc = "hash"
    /\ \E seedHex \in SeedSamples :
          /\ Keccak256(PackedInput(call.jobs[slot].variant, call.jobs[slot].tokenId), seedHex)
          /\ Store(slot, StepHash(ret.work, call.jobs[slot], slot, seedHex))
    /\ UNCHANGED <<comp, call>>

WorkerTraits(slot) ==
    /\ call.fn = "organisms"
    /\ ret.work[slot].pc = "traits"
    /\ Store(slot, StepTraits(ret.work, call.jobs[slot], slot))
    /\ UNCHANGED <<keccak, comp, call>>

WorkerPalette(slot) ==
    /\ call.fn = "organisms"
    /\ ret.work[slot].pc = "palette"
    /\ Store(slot, StepPalette(ret.work, call.jobs[slot], slot))
    /\ UNCHANGED <<keccak, comp, call>>

WorkerSpikes(slot) ==
    /\ call.fn = "organisms"
    /\ ret.work[slot].pc = "spikes"
    /\ Store(slot, StepSpikes(ret.work, call.jobs[slot], slot))
    /\ UNCHANGED <<keccak, comp, call>>

NextWorkers ==
    \/ \E slot \in Slots : WorkerHash(slot)
    \/ \E slot \in Slots : WorkerTraits(slot)
    \/ \E slot \in Slots : WorkerPalette(slot)
    \/ \E slot \in Slots : WorkerSpikes(slot)

SpecWorkers == InitWorkers /\ [][NextWorkers]_vars

\* The frame loop.  The scene holds the three.js objects behind the refs of a
\* committed Virus3D: the root group, one group per spike and the groups and
\* rings that the children animate.  Angles are in micro-radians, the clock in
\* milliseconds, vectors are <<x, y, z>>.

\* The values of state.clock.getElapsedTime() at the frames that are rendered
FrameTimes == {0, 16, 1000, 2500}

\* t * coeff in micro-radians, coeff in hundredths
Angle(t, coeff) == t * coeff * 10

\* Math.sin(t * freq) * amp in micro-radians, freq and amp in hundredths
Swing(t, freq, amp) == Sin(Angle(t, freq)) * amp

\* Math.cos(t * freq) * amp in micro-radians
SwingCos(t, freq, amp) == Cos(Angle(t, freq)) * amp

\* The groups and rings with a ref of their own, and their rotation prop
InitialParts(v) ==
    CASE v = "style" -> [ ringRef1 |-> <<0, 0, 0>>, ringRef2 |-> <<(PI * 2) \div 5, 0, 0>> ]
      [] v = "lore"  -> [ ref |-> <<0, 0, 0>> ]
      [] v = "cyber" -> [ coreRef |-> <<0, 0, 0>>, groupRef |-> <<0, 0, 0>>,
                          r1 |-> <<0, 0, 0>>, r2 |-> <<0, 0, 0>> ]
      [] OTHER       -> << >>

\* The commit of a rendered Virus3D: the objects are created from the props
\* (position and rotation are copied into each spike group) and the refs are set.
BuildScene(c) ==
    [ done   |-> TRUE,
      root   |-> [ rotation |-> <<0, 0, 0>>, scale |-> <<Scale, Scale, Scale>> ],
      groups |-> [ i \in DOMAIN c.spikes.value |->
                     [ position |-> c.spikes.value[i].pos,
                       rotation |-> c.spikes.value[i].rot,
                       turned   |-> <<0, 0, 0>> ] ],
      parts  |-> InitialParts(c.variant) ]

\* The useFrame callback of Virus3D: the rotation and the scale of the root group
RootFrame(v, traits, root, t) ==
    LET f == FrameCoefficients(v, traits)
        pulse == Scale + (Sin(Angle(t, f.pulseFreq)) * f.pulseAmp) \div 100
        s == (f.baseScale * pulse) \div 100
    IN  [ rotation |-> [ root.rotation EXCEPT ![2] = Angle(t, f.spin),
                                              ![f.wobbleAxis] = Swing(t, f.wobbleFreq, f.wobbleAmp) ],
          scale    |-> << s, (s * f.squash) \div 100, s >> ]

\* The useFrame callback of Spikes: g.rotation.z += ..., g.rotation.y += ... for
\* every spike group (part_003: jitter * 0.01 both; part_004: wobble * 0.015 and
\* wobble * 0.01); the other variants have no callback on their spikes.
SpikesFrame(v, groups, t) ==
    CASE v = "style" ->
           [ i \in DOMAIN groups |->
               LET jitter == Sin(Angle(t, 300) + (i - 1) * 1700000) * 12
               IN  [ groups[i] EXCEPT !.turned = << @[1], @[2] + jitter \div 100, @[3] + jitter \div 100 >> ] ]
      [] v = "cyber" ->
           [ i \in DOMAIN groups |->
               LET wobble == Sin(Angle(t, 300) + (i - 1) * 900000) * 12
               IN  [ groups[i] EXCEPT !.turned = << @[1], @[2] + wobble \div 100, @[3] + (wobble * 15) \div 1000 >> ] ]
      [] OTHER -> groups

\* The useFrame callbacks of FieldRings (part_003), DataField, Core, Helix and
\* FieldRings (part_004)
PartsFrame(v, traits, parts, t) ==
    CASE v = "style" ->
           [ ringRef1 |-> << Swing(t, 30, 40), Angle(t, 40), parts.ringRef1[3] >>,
             ringRef2 |-> << parts.ringRef2[1], -Angle(t, 35), SwingCos(t, 27, 40) >> ]
      [] v = "lore" ->
           [ ref |-> << parts.ref[1], parts.ref[2], Angle(t, 10) >> ]
      [] v = "cyber" ->
           LET aggressive == traits.alignment = "Parasitic"
           IN  [ coreRef  |-> << Swing(t, 90, 40), Angle(t, 80), parts.coreRef[3] >>,
                 groupRef |-> << parts.groupRef[1], -Angle(t, 90), parts.groupRef[3] >>,
                 r1       |-> << Swing(t, 30, 40), Angle(t, IF aggressive THEN 60 ELSE 40), parts.r1[3] >>,
                 r2       |-> << parts.r2[1], -Angle(t, IF aggressive THEN 50 ELSE 35), SwingCos(t, 27, 40) >> ]
      [] OTHER -> parts

\* All the useFrame callbacks of a committed Virus3D at clock time t
FrameCallbacks(c, scene, t) ==
    [ done   |-> TRUE,
      root   |-> RootFrame(c.variant, c.traits, scene.root, t),
      groups |-> SpikesFrame(c.variant, scene.groups, t),
      parts  |-> PartsFrame(c.variant, c.traits, scene.parts, t) ]

\* (first the props as they would be if a spike group's rotation were the very
\* Euler object of the memoised array: the callback's += would reach the array)
PropsAfterFrameAliased(c, scene) ==
    [ c EXCEPT !.spikes.value =
        [ i \in DOMAIN @ |->
            [ @[i] EXCEPT !.rot = << @[1] + scene.groups[i].turned[1],
                                    @[2] + scene.groups[i].turned[2],
                                    @[3] + scene.groups[i].turned[3] >> ] ] ]

\* The component state after the callbacks: the position and rotation props are
\* copied into the objects at commit, the callbacks write the objects only.
PropsAfterFrame(c, scene) == c

InitFrame ==
    /\ keccak = << >>
    /\ comp = [ slot \in Slots |-> Unmounted ]
    /\ call = [ fn |-> "frame", elapsed |-> 0, ticks |-> 0 ]
    /\ ret = Pending

\* React commits the rendered Virus3D of the slot: refs are attached
Commit(slot) ==
    /\ call.fn = "frame"
    /\ comp[slot].mounted
    /\ ~ret.done
    /\ ret' = BuildScene(comp[slot])
    /\ UNCHANGED <<keccak, comp, call>>

\* A frame is rendered at clock time t: every subscribed callback runs; each
\* returns at once while its ref is not attached
Tick(slot, t) ==
    /\ call.fn = "frame"
    /\ call.ticks < MaxTicks
    /\ t >= call.elapsed
    /\ call' = [ call EXCEPT !.elapsed = t, !.ticks = @ + 1 ]
    /\ IF comp[slot].mounted /\ ret.done
       THEN /\ ret' = FrameCallbacks(comp[slot], ret, t)
            /\ comp' = [ comp EXCEPT ![slot] = PropsAfterFrame(@, ret') ]
       ELSE UNCHANGED <<comp, ret>>
    /\ UNCHANGED keccak

NextFrame ==
    \/ \E v \in Variants, tokenId \in TokenIds : Mount("a", v, tokenId)
    \/ Commit("a")
    \/ \E t \in FrameTimes : Tick("a", t)

SpecFrame == InitFrame /\ [][NextFrame]_vars

\* The point clouds of the renderer of src/components/Virus3D.tsx.  Math.random
\* is the generator of the JavaScript realm: its state is hidden, is started
\* anywhere by the engine and advances with every call, whoever calls.  It is
\* modelled as a full-period additive generator over PrngModulus states.
PrngModulus == 16

\* The state of the generator after n calls of Math.random() from state s
Advance(s, n) == (s + 5 * n) % PrngModulus

\* The value of the k-th Math.random() called from generator state s, in 0..1
Draw(s, k) == (Advance(s, k) * Scale) \div PrngModulus

\* Math.cbrt of a fixed-point number in 0..1, by bisection
RECURSIVE CbrtIter(_, _, _, _)
CbrtIter(v, lo, hi, k) ==
    IF k = 0 \/ hi - lo <= 1 THEN lo
    ELSE LET mid == (lo + hi) \div 2
         IN  IF Mul(Mul(mid, mid), mid) <= v THEN CbrtIter(v, mid, hi, k - 1)
                                             ELSE CbrtIter(v, lo, mid, k - 1)

Cbrt(v) == CbrtIter(v, 0, Scale + 1, 20)

\* u * Math.PI * 2 in micro-radians
Turn(u) == u * (TWO_PI \div Scale) + (u * (TWO_PI % Scale)) \div Scale

\* The point (r sin(phi) cos(theta), r sin(phi) sin(theta), r cos(phi))
Spherical(r, theta, phi) ==
    << Mul(Mul(r, Sin(phi)), Cos(theta)), Mul(Mul(r, Sin(phi)), Sin(theta)), Mul(r, Cos(phi)) >>

\* One iteration of the loop of ParticleCore; Math.pow(x, 0.33) is taken as the cube root
CoreParticle(s) ==
    LET r == (Cbrt(Draw(s, 1)) * 28) \div 100
        theta == Turn(Draw(s, 2))
        phi == Acos(2 * Draw(s, 3) - Scale)
    IN  Spherical(r, theta, phi)

\* (first the loop body of ParticleShell with the radius spread over the whole
\* surface radius instead of the part above the core edge)
ShellPointFromOrigin(u1, u2, u3) ==
    LET theta == Turn(u1)
        phi == Acos(2 * u2 - Scale)
        displacement == getRuggedDisplacement(theta, phi)
        surfaceRadius == Scale + displacement
        r == Scale \div 4 + Mul(Mul(u3, u3), surfaceRadius)
    IN  [ theta |-> theta, phi |-> phi, displacement |-> displacement, r |-> r,
          pos |-> Spherical(r, theta, phi) ]

\* The loop body of ParticleShell for the three values u1, u2, u3 of Math.random()
ShellPoint(u1, u2, u3) ==
    LET theta == Turn(u1)
        phi == Acos(2 * u2 - Scale)
        displacement == getRuggedDisplacement(theta, phi)
        surfaceRadius == Scale + displacement
        r == Scale \div 4 + Mul(Mul(u3, u3), surfaceRadius - Scale \div 4)
    IN  [ theta |-> theta, phi |-> phi, displacement |-> displacement, r |-> r,
          pos |-> Spherical(r, theta, phi) ]

\* One iteration of the loop of ParticleShell
ShellParticle(s) == ShellPoint(Draw(s, 1), Draw(s, 2), Draw(s, 3)).pos

\* One iteration of the loop of SingleSpikeCloud: a point of the head or of the stalk
SpikeCloudParticle(s) ==
    LET isHead == Draw(s, 1) > (6 * Scale) \div 10
    IN  IF isHead
        THEN LET r == Cbrt(Draw(s, 2)) \div 10
                 theta == Turn(Draw(s, 3))
                 phi == Acos(2 * Draw(s, 4) - Scale)
                 p == Spherical(r, theta, phi)
             IN  << p[1], p[2] + (6 * Scale) \div 10, p[3] >>
        ELSE LET r == (Sqrt(Draw(s, 2)) * 12) \div 1000
                 theta == Turn(Draw(s, 3))
                 h == (Draw(s, 4) * 6) \div 10
             IN  << Mul(r, Cos(theta)), h, Mul(r, Sin(theta)) >>

\* One iteration of the loop of Atmosphere
AtmosphereParticle(s) ==
    LET r == 3 * Scale + 4 * Draw(s, 1)
        theta == Turn(Draw(s, 2))
        phi == Acos(2 * Draw(s, 3) - Scale)
    IN  Spherical(r, theta, phi)

\* The position buffers of CloudSize particles; a particle of the spike cloud
\* takes four calls of Math.random, a particle of the others three
CoreBuffer(s) == [ i \in 1 .. CloudSize |-> CoreParticle(Advance(s, (i - 1) * 3)) ]

ShellBuffer(s) == [ i \in 1 .. CloudSize |-> ShellParticle(Advance(s, (i - 1) * 3)) ]

SpikeCloudBuffer(s) == [ i \in 1 .. CloudSize |-> SpikeCloudParticle(Advance(s, (i - 1) * 4)) ]

AtmosphereBuffer(s) == [ i \in 1 .. CloudSize |-> AtmosphereParticle(Advance(s, (i - 1) * 3)) ]

\* The first render of the children of a mounted Virus3D, in the order of the
\* JSX: ParticleCore, ParticleShell, one SingleSpikeCloud per spike, Atmosphere.
\* Every useMemo runs its loop; s is the state of the generator before.
PointClouds(c, s) ==
    LET count == c.traits.spikeCount
        sShell == Advance(s, 3 * CloudSize)
        sSpikes == Advance(sShell, 3 * CloudSize)
        sAtmosphere == Advance(sSpikes, 4 * CloudSize * count)
    IN  [ built      |-> TRUE,
          core       |-> CoreBuffer(s),
          shell      |-> ShellBuffer(sShell),
          spikes     |-> [ n \in 1 .. count |->
                             SpikeCloudBuffer(Advance(sSpikes, 4 * CloudSize * (n - 1))) ],
          atmosphere |-> AtmosphereBuffer(sAtmosphere),
          prng       |-> Advance(sAtmosphere, 3 * CloudSize) ]

NoClouds == [ built |-> FALSE ]

InitScene ==
    /\ keccak = << >>
    /\ comp = [ slot \in Slots |-> Unmounted ]
    /\ call \in [ fn : {"scene"}, prng : 0 .. PrngModulus - 1 ]
    /\ ret = [ done |-> FALSE, clouds |-> [ slot \in Slots |-> NoClouds ] ]

\* The children of the Virus3D of the slot render for the first time
RenderClouds(slot) ==
    /\ call.fn = "scene"
    /\ comp[slot].mounted
    /\ ~ret.clouds[slot].built
    /\ LET clouds == PointClouds(comp[slot], call.prng)
           all == [ ret.clouds EXCEPT ![slot] = clouds ]
       IN  /\ ret' = [ done |-> \A t \in Slots : all[t].built, clouds |-> all ]
           /\ call' = [ call EXCEPT !.prng = clouds.prng ]
    /\ UNCHANGED <<keccak, comp>>

NextScene ==
    \/ \E slot \in Slots, tokenId \in TokenIds : Mount(slot, "rugged", tokenId)
    \/ \E slot \in Slots : RenderClouds(slot)

SpecScene == InitScene /\ [][NextScene]_vars

\* The values of Math.random() the shell loop is applied to: a grid over 0..1
\* and the largest value below 1
GridSteps == 20

Variates == { (k * Scale) \div GridSteps : k \in 0 .. GridSteps - 1 } \cup {Scale - 1}

InitShell ==
    /\ keccak = << >>
    /\ comp = [ slot \in Slots |-> Unmounted ]
    /\ call \in [ fn : {"shell"}, u1 : Variates, u2 : Variates, u3 : {0, Scale \div 2, Scale - 1} ]
    /\ ret = Pending

ApplyShell ==
    /\ call.fn = "shell"
    /\ ~ret.done
    /\ ret' = [ done |-> TRUE, value |-> ShellPoint(call.u1, call.u2, call.u3) ]
    /\ UNCHANGED <<keccak, comp, call>>

SpecShell == InitShell /\ [][ApplyShell]_vars

InitDescribe ==
    /\ keccak = << >>
    /\ comp = [ slot \in Slots |-> Unmounted ]
    /\ call \in [ fn : {"describe"}, variant : Variants, seedHex : HexSeeds ]
    /\ ret = Pending

ApplyDescribe ==
    /\ call.fn = "describe"
    /\ ~ret.done
    /\ ret' = [ done |-> TRUE,
                traits |-> DecodeTraits(call.variant, call.seedHex),
                value |-> Describe(call.variant, DecodeTraits(call.variant, call.seedHex)) ]
    /\ UNCHANGED <<keccak, comp, call>>

SpecDescribe == InitDescribe /\ [][ApplyDescribe]_vars

\* The seed props the length variance is computed for: Number(seed % 100000n) is
\* in 0..99999; every residue modulo 100 at both ends of that range
SeedPropsLength == (0 .. 299) \cup (99700 .. 99999)

InitLength ==
    /\ keccak = << >>
    /\ comp = [ slot \in Slots |-> Unmounted ]
    /\ call \in [ fn : {"length"}, seed : SeedPropsLength, i : 0 .. 11 ]
    /\ ret = Pending

ApplyLength ==
    /\ call.fn = "length"
    /\ ~ret.done
    /\ ret' = [ done |-> TRUE,
                value |-> [ lenVar |-> lenVar(call.seed, call.i), length |-> length(call.seed, call.i) ] ]
    /\ UNCHANGED <<keccak, comp, call>>

SpecLength == InitLength /\ [][ApplyLength]_vars

\* The hex digits, most significant first, of a number below 16^6
HexOfWide(n) ==
    << (n \div 1048576) % 16, (n \div 65536) % 16, (n \div 4096) % 16,
       (n \div 256) % 16, (n \div 16) % 16, n % 16 >>

\* A seed whose residues modulo 360 and 7 and whose bits 8 and 12..13 are the
\* given ones: r is the number below 2520 with the two residues, and r + 2520 * j
\* is brought to the wanted fourteen low bits (2035 * 315 = 1 modulo 2048).
SeedFor(hue, count, alignIdx, mutIdx) ==
    LET r == CHOOSE x \in { hue + 360 * k : k \in 0 .. 6 } : x % 7 = count - 6
        low == (r % 256) + 256 * alignIdx + 4096 * mutIdx
        d == ((low - r) % 16384) \div 8
        j == (d * 2035) % 2048
    IN  r + 2520 * j

\* The trait derivation is called with one hash value for every combination of
\* in-range trait values
InitCombos ==
    /\ keccak = << >>
    /\ comp = [ slot \in Slots |-> Unmounted ]
    /\ call \in { [ fn |-> "traits", variant |-> v,
                    seedHex |-> HexOfWide(SeedFor(h, c, a, mi)),
                    want |-> [ hue |-> h, spikeCount |-> c, alignIdx |-> a, mutIdx |-> mi ] ] :
                    v \in AlignedVariants, h \in 0 .. 359, c \in 6 .. 12, a \in 0 .. 1, mi \in 0 .. 3 }
    /\ ret = Pending

SpecCombos == InitCombos /\ [][ApplyTraits]_vars

---------------------------------------------------------------------------
(* Properties *)

Mounted(slot) == comp[slot].mounted

\* The set of elements of a sequence
Range(seq) == { seq[i] : i \in DOMAIN seq }

\* C1: Trait derivation is deterministic.  Two mounted Virus3D of the same
\* variant with the same tokenId, whether freshly mounted or re-rendered after
\* other token ids were shown, hold the identical record (seed, hue,
\* spikeCount, alignment, ...): nothing but the token id decides it.
C1_Deterministic ==
    \A s, t \in Slots :
        ( /\ Mounted(s) /\ Mounted(t)
          /\ comp[s].variant = comp[t].variant
          /\ comp[s].tokenId = comp[t].tokenId )
        => /\ comp[s].seedHex = comp[t].seedHex
           /\ comp[s].traits = comp[t].traits

\* Two instances of the rugged renderer show the same token id after the hash
\* has been evaluated for two different inputs.
C1_Witness ==
    /\ Mounted("a") /\ Mounted("b")
    /\ comp["a"].variant = "rugged" /\ comp["b"].variant = "rugged"
    /\ comp["a"].tokenId = comp["b"].tokenId
    /\ Cardinality(DOMAIN keccak) >= 2

\* The hash input every variant is to build for a token id
ExpectedPacked(tokenId) ==
    << [type |-> "uint256", num |-> tokenId, str |-> ""],
       [type |-> "uint256", num |-> tokenId, str |-> ""],
       [type |-> "string", num |-> 0, str |-> "VIRUS_EVO_V1"] >>

\* C4: All renderer variants agree on the traits.  Every mounted Virus3D hashes
\* the packed tuple (uint256 id, uint256 id, string 'VIRUS_EVO_V1') in that
\* order, and two mounted Virus3D of any two variants showing the same token id
\* have the same seed, hue and spike count, and the same alignment index and
\* mutation index wherever both derive them.
C4_VariantsAgree ==
    /\ \A s \in Slots : Mounted(s) => comp[s].packed = ExpectedPacked(comp[s].tokenId)
    /\ \A s, t \in Slots :
          (Mounted(s) /\ Mounted(t) /\ comp[s].tokenId = comp[t].tokenId)
          => LET p == comp[s].traits
                 q == comp[t].traits
                 both == DOMAIN p \cap DOMAIN q
             IN  /\ p.seed = q.seed
                 /\ p.hue = q.hue
                 /\ p.spikeCount = q.spikeCount
                 /\ "alignIdx" \in both => p.alignIdx = q.alignIdx /\ p.alignment = q.alignment
                 /\ "mutIdx" \in both => p.mutIdx = q.mutIdx

\* Two different variants that both derive alignment and mutation show one token id.
C4_Witness ==
    /\ Mounted("a") /\ Mounted("b")
    /\ comp["a"].variant = "lore" /\ comp["b"].variant = "cyber"
    /\ comp["a"].tokenId = comp["b"].tokenId
    /\ comp["a"].traits.mutIdx > 0

\* C6: The palette depends on (hue, alignment) only.  Two mounted Virus3D of a
\* variant whose derived hue and alignment are equal use the identical palette
\* record (every colour role and the opacity), whatever their token ids, seeds
\* and spike counts, and whatever was rendered in the instance before.
C6_PaletteOfHueAlignment ==
    \A s, t \in Slots :
        ( /\ Mounted(s) /\ Mounted(t)
          /\ comp[s].variant = comp[t].variant
          /\ comp[s].traits.hue = comp[t].traits.hue
          /\ comp[s].variant \in AlignedVariants
               => comp[s].traits.alignment = comp[t].traits.alignment )
        => comp[s].palette.value = comp[t].palette.value

\* Two token ids with different seeds and spike counts, the same hue and alignment.
C6_Witness ==
    /\ Mounted("a") /\ Mounted("b")
    /\ comp["a"].variant = "rugged" /\ comp["b"].variant = "rugged"
    /\ comp["a"].tokenId # comp["b"].tokenId
    /\ comp["a"].traits.seed # comp["b"].traits.seed
    /\ comp["a"].traits.spikeCount # comp["b"].traits.spikeCount
    /\ comp["a"].traits.hue = comp["b"].traits.hue
    /\ comp["a"].traits.alignment = comp["b"].traits.alignment

\* The number a string of four hex digits writes, by place value
PlaceValue(hex) == 4096 * hex[1] + 256 * hex[2] + 16 * hex[3] + hex[4]

\* C2: For every seed value the decoded traits are those of the reference
\* derivation: hue = seed mod 360, appendageCount = 6 + (seed mod 7), alignment
\* index = bit 8 of the seed = (seed >> 8) mod 2, mutation index = bits 12..13
\* of the seed = (seed >> 12) mod 4, in every variant that derives them.
C2_ReferenceDerivation ==
    (call.fn = "traits" /\ ret.done)
    => LET n == PlaceValue(call.seedHex)
           t == ret.value
       IN  /\ t.seed = n
           /\ t.hue = n % 360
           /\ t.spikeCount = 6 + (n % 7)
           /\ "alignIdx" \in DOMAIN t
                => /\ t.alignIdx = call.seedHex[2] % 2
                   /\ t.alignIdx = (n \div 256) % 2
           /\ "mutIdx" \in DOMAIN t
                => /\ t.mutIdx = call.seedHex[1] % 4
                   /\ t.mutIdx = (n \div 4096) % 4

\* A seed with bit 8 set and a non-zero mutation index has been decoded by the lore variant.
C2_Witness ==
    /\ call.fn = "traits" /\ ret.done
    /\ call.variant = "lore"
    /\ ret.value.alignIdx = 1
    /\ ret.value.mutIdx = 3
    /\ ret.value.hue = 359

\* C3: For every seed the derived traits are in range: hue in 0..359, spike
\* count in 6..12, alignment index 0 or 1 (so ALIGNMENTS[alignIdx] is never
\* undefined) and mutation index in 0..3.
C3_TraitsInRange ==
    (call.fn = "traits" /\ ret.done)
    => LET t == ret.value
       IN  /\ t.hue \in 0 .. 359
           /\ t.spikeCount \in 6 .. 12
           /\ "alignIdx" \in DOMAIN t
                => /\ t.alignIdx \in {0, 1}
                   /\ t.alignment \in {"Symbiotic", "Parasitic"}
           /\ "mutIdx" \in DOMAIN t => t.mutIdx \in 0 .. 3

\* The largest spike count and the largest indices have been derived.
C3_Witness ==
    /\ call.fn = "traits" /\ ret.done
    /\ call.variant = "cyber"
    /\ ret.value.spikeCount = 12
    /\ ret.value.alignIdx = 1
    /\ ret.value.mutIdx = 3

\* C5: Alignment-domain separation.  The mutation name selected is one of the
\* four Symbiotic names exactly when the alignment is Symbiotic and one of the
\* four Parasitic names exactly when it is Parasitic; the two name sets are
\* disjoint and the index (seed >> 12) mod 4 never selects outside them.
C5_AlignmentDomains ==
    /\ Len(MUTATIONS_SYM) = 4 /\ Cardinality(Range(MUTATIONS_SYM)) = 4
    /\ Len(MUTATIONS_PAR) = 4 /\ Cardinality(Range(MUTATIONS_PAR)) = 4
    /\ Range(MUTATIONS_SYM) \cap Range(MUTATIONS_PAR) = {}
    /\ (call.fn = "traits" /\ ret.done /\ "mutation" \in DOMAIN ret.value)
       => LET t == ret.value
          IN  /\ t.mutation \in Range(MUTATIONS_SYM) <=> t.alignment = "Symbiotic"
              /\ t.mutation \in Range(MUTATIONS_PAR) <=> t.alignment = "Parasitic"
              /\ t.mutation \in Range(MUTATIONS_SYM) \cup Range(MUTATIONS_PAR)

\* A Parasitic seed has selected the last Parasitic name.
C5_Witness ==
    /\ call.fn = "traits" /\ ret.done
    /\ call.variant = "cyber"
    /\ ret.value.alignment = "Parasitic"
    /\ ret.value.mutation = "Cell-Rupture"

OtherAlignment(alignment) == IF alignment = "Symbiotic" THEN "Parasitic" ELSE "Symbiotic"

\* Some colour role of palette p has the hue component h
HasRoleAtHue(p, h) == \E role \in ColourRoles(p) : p[role][1] = h

\* Some colour role differs between the palettes p and q of one variant
DifferInColour(p, q) == \E role \in ColourRoles(p) : p[role] # q[role]

Complement(hue) == (hue + 180) % 360

\* C7 as claimed: for every hue the Symbiotic and the Parasitic palette of a
\* getPalette differ in at least one colour role, and in both alignments the
\* colour roles include one at hue and one at the complement (hue + 180) mod 360.
C7_AsClaimed ==
    (call.fn = "palette" /\ ret.done /\ call.variant \in AlignedVariants)
    => LET p == ret.value
           q == PaletteOf(call.variant, call.hue, OtherAlignment(call.alignment))
       IN  /\ DifferInColour(p, q)
           /\ HasRoleAtHue(p, call.hue)
           /\ HasRoleAtHue(p, Complement(call.hue))

\* C7 (amended): for every hue, every getPalette has a colour role at hue in
\* both alignments.  The two alignments differ in a colour role in the lore and
\* cyber variants only; in the rugged, ring and neon variants they have the same
\* colours and differ in the opacity alone.  A role at the complement
\* (hue + 180) mod 360 exists in both alignments of every variant except the
\* Parasitic palette of the cyber variant, whose hue offsets are 200, 330 and 30.
C7_PaletteFormulas ==
    (call.fn = "palette" /\ ret.done /\ call.variant \in AlignedVariants)
    => LET v == call.variant
           p == ret.value
           q == PaletteOf(v, call.hue, OtherAlignment(call.alignment))
       IN  /\ HasRoleAtHue(p, call.hue)
           /\ DifferInColour(p, q) <=> v \in {"lore", "cyber"}
           /\ v \in {"rugged", "ring", "neon"} => p.opacity # q.opacity
           /\ HasRoleAtHue(p, Complement(call.hue))
                <=> ~(v = "cyber" /\ call.alignment = "Parasitic")
           /\ (v = "cyber" /\ call.alignment = "Parasitic")
                => { (p[role][1] - call.hue) % 360 : role \in ColourRoles(p) } = {0, 200, 330, 30}

\* The Parasitic palette of the cyber variant has been computed.
C7_Witness ==
    /\ call.fn = "palette" /\ ret.done
    /\ call.variant = "cyber"
    /\ call.alignment = "Parasitic"
    /\ call.hue = 200

\* Distance of two hues on the colour circle
CircularDistance(a, b) ==
    LET d == (a - b) % 360
    IN  IF d <= 180 THEN d ELSE 360 - d

\* C8: No seam at the hue wraparound.  For every hue in 0..359 every colour
\* role's hue component (hue + k) mod 360 is in 0..359, and from a hue h to its
\* successor (h + 1) mod 360, the step from 359 to 0 included, every role's hue
\* component moves by a circular distance of exactly 1 while its saturation
\* and lightness stay.
C8_NoSeam ==
    (call.fn = "palette" /\ ret.done)
    => LET p == ret.value
           q == PaletteOf(call.variant, (call.hue + 1) % 360, call.alignment)
       IN  \A role \in ColourRoles(p) :
              /\ p[role][1] \in 0 .. 359
              /\ CircularDistance(q[role][1], p[role][1]) = 1
              /\ q[role][2] = p[role][2]
              /\ q[role][3] = p[role][3]

\* The palette of hue 359, whose successor is hue 0, has been computed, and one
\* of its roles wrapped around.
C8_Witness ==
    /\ call.fn = "palette" /\ ret.done
    /\ call.variant = "rugged"
    /\ call.hue = 359
    /\ ret.value.secondary[1] = 179

\* The directions of a list of spikes
Directions(spikes) == [ i \in DOMAIN spikes |-> spikes[i].rot ]

\* The least angle allowed between two spikes: half a radian
MinSeparation == AngleUnit \div 2

\* C9: Placement evenness.  For every N in 6..12 the placement loop of every
\* variant yields exactly N spike directions, the directions are the same for
\* every seed prop (a function of N alone), and any two of them are more than
\* MinSeparation apart (the cosine of their angle is below cos(MinSeparation)).
C9_PlacementEven ==
    (call.fn = "place" /\ ret.done)
    => LET spikes == ret.value
       IN  /\ Len(spikes) = call.count
           /\ \A i, j \in DOMAIN spikes :
                 i < j => Dot(spikes[i].rot, spikes[j].rot) < Cos(MinSeparation)
           /\ \A seed \in SeedProps :
                 Directions(PlaceSpikes(call.variant, call.count, seed)) = Directions(spikes)

\* Twelve spikes have been placed by the rugged renderer.
C9_Witness ==
    /\ call.fn = "place" /\ ret.done
    /\ call.variant = "rugged"
    /\ call.count = 12
    /\ Len(ret.value) = 12

\* What two equal fixed-point lengths may differ by: 0.02
Tolerance == Scale \div 50

\* The angles (theta, phi) that ParticleShell has for the direction d: the shell
\* puts (theta, phi) at (sin phi cos theta, sin phi sin theta, cos phi).
ShellTheta(d) == Atan2(d[2], d[1])

ShellPhi(d) == Acos(d[3])

\* The radius of the displaced body surface in direction d
ShellSurfaceRadius(d) == Scale + getRuggedDisplacement(ShellTheta(d), ShellPhi(d))

\* C10: Appendages root exactly on the displaced body surface.  In the rugged
\* renderer every spike's base point is at the distance from the centre that
\* the body shell gives to the spike's direction: 1 + getRuggedDisplacement at
\* the shell's own angles for that direction.
C10_RootOnSurface ==
    (call.fn = "place" /\ ret.done /\ call.variant = "rugged")
    => \A i \in DOMAIN ret.value :
          LET pos == ret.value[i].pos
          IN  Abs(Norm(pos) - ShellSurfaceRadius(Normalize(pos))) <= Tolerance

\* C13: Traits do not interfere.  For every combination of in-range values (hue
\* in 0..359, spike count in 6..12, alignment index in {0,1}, mutation index in
\* 0..3) there is a seed from which the derivation yields exactly that
\* combination: the seed built for the combination decodes to it, in every
\* variant, for the traits the variant derives.
C13_NoInterference ==
    (call.fn = "traits" /\ ret.done /\ "want" \in DOMAIN call)
    => LET t == ret.value
           w == call.want
       IN  /\ t.hue = w.hue
           /\ t.spikeCount = w.spikeCount
           /\ t.alignIdx = w.alignIdx
           /\ "mutIdx" \in DOMAIN t => t.mutIdx = w.mutIdx

\* The combination of the largest value of every trait has been derived.
C13_Witness ==
    /\ call.fn = "traits" /\ ret.done /\ "want" \in DOMAIN call
    /\ call.variant = "cyber"
    /\ ret.value.hue = 359
    /\ ret.value.spikeCount = 12
    /\ ret.value.alignIdx = 1
    /\ ret.value.mutIdx = 3

\* The seeds below 36000 that have the hue h
SeedsOfHue(h) == { h + 360 * k : k \in 0 .. 99 }

\* C19: In the style variant the derived traits do not interfere: hasAura is
\* not determined by the hue, i.e. for the hue of every seed there is another
\* seed of the same hue with the other aura outcome, and every combination of
\* spikeStyle and nucleusType is derived from some seed.
C19_StyleTraitsIndependent ==
    (call.fn = "traits" /\ ret.done /\ call.variant = "style")
    => LET t == ret.value
       IN  /\ \E n \in SeedsOfHue(t.hue) :
                 LET u == TraitsStyle(HexOfWide(n))
                 IN  u.hue = t.hue /\ u.hasAura # t.hasAura
           /\ \A s \in 0 .. 2, nt \in 0 .. 2 :
                 \E a \in 0 .. 2, b \in 0 .. 2 :
                    LET u == TraitsStyle(HexOfWide(4096 * a + 16 * b))
                    IN  u.spikeStyle = s /\ u.nucleusType = nt

\* C20: Per-appendage variance is a function of (seed, index).  In SpikeArray,
\* for every seed prop and every index i in 0..11, lenVar is the number of
\* hundredths (seed + 13 * i) mod 100, so it lies in [0, 0.99], and the spike
\* length is 1 + 0.4 * lenVar, in [1.0, 1.4).
C20_LengthVariance ==
    (call.fn = "length" /\ ret.done)
    => LET r == (call.seed + 13 * call.i) % 100
       IN  /\ ret.value.lenVar * 100 = r * Scale
           /\ ret.value.lenVar >= 0
           /\ ret.value.lenVar * 100 <= 99 * Scale
           /\ ret.value.length * 10 = 10 * Scale + 4 * ret.value.lenVar
           /\ ret.value.length >= Scale
           /\ ret.value.length * 10 < 14 * Scale

\* The largest seed prop with the largest variance 0.99 has been computed.
C20_Witness ==
    /\ call.fn = "length" /\ ret.done
    /\ call.seed = 99999
    /\ call.i = 0
    /\ ret.value.lenVar * 100 = 99 * Scale

\* Hash values of both alignments, all four mutation indices and all three
\* spike styles, with different hues and spike counts
CompareSeeds == { HexOf(256 * a + 4096 * mi + x) : a \in 0 .. 1, mi \in 0 .. 3, x \in {0, 5} }

\* The spike families a variant draws over the seeds of CompareSeeds
FamiliesOf(v) == { SpikeFamily(v, DecodeTraits(v, s)) : s \in CompareSeeds }

C12_AsClaimed ==
    (call.fn = "describe" /\ ret.done /\ call.variant \in AlignedVariants)
    => \A s \in CompareSeeds :
          LET u == DecodeTraits(call.variant, s)
              g == FrameCoefficients(call.variant, u)
              f == ret.value.frame
          IN  /\ u.alignment = ret.traits.alignment =>
                    /\ g.spin = f.spin
                    /\ g.pulseFreq = f.pulseFreq
                    /\ g.pulseAmp = f.pulseAmp
              /\ (u.alignment = "Parasitic" /\ ret.traits.alignment = "Symbiotic") =>
                    g.pulseFreq > f.pulseFreq

\* C12 (amended): all the coefficients of the frame callback of Virus3D are the
\* same for any two seeds with the same alignment (for any two seeds at all in
\* the style variant).  The Parasitic pulse frequency is strictly greater than
\* the Symbiotic one in the lore variant only (2.5 against 1.2); in the rugged,
\* ring, neon and cyber variants the pulse frequency, like the rotation rate
\* and the pulse amplitude of every variant, is the same for both alignments.
\* The distortion of the body follows the alignment in the lore variant and the
\* mutation name, not the alignment alone, in the cyber variant.
C12_FrameCoefficients ==
    (call.fn = "describe" /\ ret.done)
    => LET v == call.variant
           t == ret.traits
           f == ret.value.frame
       IN  /\ \A s \in CompareSeeds :
                 LET u == DecodeTraits(v, s)
                     g == FrameCoefficients(v, u)
                 IN  /\ (v = "style" \/ u.alignment = t.alignment) => g = f
                     /\ g.spin = f.spin
                     /\ g.pulseAmp = f.pulseAmp
                     /\ (v \in AlignedVariants /\ u.alignment = "Parasitic" /\ t.alignment = "Symbiotic") =>
                           /\ v = "lore" => (g.pulseFreq = 250 /\ f.pulseFreq = 120)
                           /\ v # "lore" => g.pulseFreq = f.pulseFreq
                     /\ (v = "lore" /\ u.alignment = t.alignment) =>
                           Distortion(v, u) = ret.value.distortion
                     /\ (v = "cyber" /\ u.mutation = t.mutation) =>
                           Distortion(v, u) = ret.value.distortion
           /\ v = "cyber" =>
                 \E s \in CompareSeeds :
                    LET u == DecodeTraits(v, s)
                    IN  u.alignment = t.alignment /\ Distortion(v, u) # ret.value.distortion

\* The frame coefficients of a Parasitic token of the lore variant have been computed.
C12_Witness ==
    /\ call.fn = "describe" /\ ret.done
    /\ call.variant = "lore"
    /\ ret.traits.alignment = "Parasitic"
    /\ ret.traits.mutIdx = 1
    /\ ret.value.frame.pulseFreq = 250

\* C14: An id outside the representable integer domain is an error, never a
\* silent change of the id.  For every token id the contract hands to the
\* viewer, either the id that Virus3D packs for the hash is numerically equal
\* to that token id, or the derivation fails with an error before hashing.
C14_NoSilentOtherId ==
    (call.fn = "view" /\ ret.done)
    => \/ ret.value.error
       \/ /\ ret.value.packed[1].num = call.chainId
          /\ ret.value.packed[2].num = call.chainId

\* The variants whose loop runs y from 1 to -1 over the divisor count - 1
PoleVariants == {"rugged", "ring", "lore", "neon"}

\* The up axis of the spike model, (0, 1, 0)
Up == <<0, Scale, 0>>

\* C15: Rendering never fails for valid traits.  For every count in 6..12 the
\* placement loop yields exactly count spikes; the divisor count - 1 is not
\* zero; no Math.sqrt or Math.acos of the loop yields NaN (1 - y*y is never
\* negative); every position is away from the origin and every orientation is
\* a unit direction; and in the loops that reach the poles the first spike
\* points along +y and the last along -y, computed by the same loop body.
C15_PlacementDefined ==
    (call.fn = "place" /\ ret.done)
    => LET spikes == ret.value
           count == call.count
       IN  /\ Len(spikes) = count
           /\ count - 1 # 0
           /\ \A n \in DOMAIN spikes :
                 /\ ~spikes[n].nan
                 /\ Norm(spikes[n].pos) > Scale \div 2
                 /\ Abs(Norm(spikes[n].rot) - Scale) <= Tolerance
           /\ call.variant \in PoleVariants
                 => /\ Dot(spikes[1].rot, Up) >= Scale - Tolerance
                    /\ Dot(spikes[count].rot, Up) <= Tolerance - Scale

\* The least count, six spikes, has been placed by the ring renderer, poles included.
C15_Witness ==
    /\ call.fn = "place" /\ ret.done
    /\ call.variant = "ring"
    /\ call.count = 6
    /\ Len(ret.value) = 6
    /\ ret.value[1].rot[2] > 0
    /\ ret.value[6].rot[2] < 0

\* The locals of a worker that runs the four steps for a job with no other
\* worker present, given the hash value of its packed input
Alone(job, seedHex) ==
    LET s == "a"
        w0 == [ x \in {s} |-> [ pc |-> "hash" ] ]
        w1 == [ x \in {s} |-> StepHash(w0, job, s, seedHex) ]
        w2 == [ x \in {s} |-> StepTraits(w1, job, s) ]
        w3 == [ x \in {s} |-> StepPalette(w2, job, s) ]
    IN  StepSpikes(w3, job, s)

\* C17: Organisms can be computed concurrently without coordination.  For any
\* jobs of the workers and any interleaving of their hash, trait, palette and
\* placement steps, everything a worker has computed so far (packed input,
\* seed, traits, palette, spikes) equals what computing its token id alone
\* gives, and a finished worker holds the whole result of computing it alone.
C17_WorkersIndependent ==
    call.fn = "organisms"
    => \A slot \in Slots :
          LET w == ret.work[slot]
              job == call.jobs[slot]
          IN  w.pc # "hash"
              => LET alone == Alone(job, keccak[PackedInput(job.variant, job.tokenId)])
                 IN  /\ \A f \in DOMAIN w \ {"pc"} : w[f] = alone[f]
                     /\ w.pc = "done" => w = alone

\* Two workers with different token ids and different traits are both in the
\* middle of their steps: one has computed its palette, the other has derived
\* its traits and not yet its palette.
C17_Witness ==
    /\ call.fn = "organisms"
    /\ call.jobs["a"].tokenId # call.jobs["b"].tokenId
    /\ call.jobs["a"].variant = "rugged" /\ call.jobs["b"].variant = "rugged"
    /\ ret.work["a"].pc = "spikes"
    /\ ret.work["b"].pc = "palette"
    /\ ret.work["a"].traits.hue # ret.work["b"].traits.hue
    /\ ret.work["a"].traits.spikeCount # ret.work["b"].traits.spikeCount

\* A step that renders a frame
IsTick == call.fn = "frame" /\ call'.ticks = call.ticks + 1

\* The callbacks have run in this step: the instance was mounted and committed
Ticked == IsTick /\ comp["a"].mounted /\ ret.done

\* The variants whose only useFrame callback is the one of Virus3D
RootOnlyVariants == {"rugged", "ring", "neon"}

\* C16 as stated: no frame changes the traits, the palette or the placement,
\* and a frame writes only the rotation and the scale of the root group.
C16_AsClaimed ==
    [][ IsTick => /\ comp' = comp
                  /\ Ticked => /\ ret'.groups = ret.groups
                                /\ ret'.parts = ret.parts ]_vars

\* C16: Frame ticks never affect traits.  Any sequence of frames, with any
\* gaps between the clock times and with frames before the commit, leaves the
\* hash, the traits, the palette and the memoised spike placement unchanged,
\* and a frame before the refs are attached writes nothing.  A frame writes
\* transforms of scene objects only: the rotation and scale of the root group
\* in every variant and nothing else in Virus3D.tsx and part_005; in part_003
\* and in the second renderer of part_004 also the rotation of every spike
\* group (never its position or its rotation prop), and in part_003 and
\* part_004 the rotation of the ring, core and helix groups.
C16_FrameTicks ==
    [][ IsTick =>
          /\ comp' = comp
          /\ keccak' = keccak
          /\ ~Ticked => ret' = ret
          /\ Ticked =>
                /\ DOMAIN ret' = DOMAIN ret
                /\ DOMAIN ret'.groups = DOMAIN ret.groups
                /\ \A i \in DOMAIN ret.groups :
                      /\ ret'.groups[i].position = ret.groups[i].position
                      /\ ret'.groups[i].rotation = ret.groups[i].rotation
                /\ comp["a"].variant \in RootOnlyVariants
                      => ret'.groups = ret.groups /\ ret'.parts = ret.parts
                /\ comp["a"].variant = "lore" => ret'.groups = ret.groups ]_vars

\* MaxTicks frames have been rendered for a committed part_003 renderer: the
\* root group is turned and scaled, a spike group has been turned by the
\* callback of Spikes, and the memoised placement is still the computed one.
C16_Witness ==
    /\ call.fn = "frame" /\ call.ticks = MaxTicks /\ call.elapsed = 2500
    /\ comp["a"].mounted /\ comp["a"].variant = "style"
    /\ ret.done
    /\ ret.root.rotation[2] > 0
    /\ ret.root.scale[2] # ret.root.scale[1]
    /\ \E i \in DOMAIN ret.groups : ret.groups[i].turned # <<0, 0, 0>>
    /\ comp["a"].spikes.value = PlacedSpikes["style", comp["a"].seedHex]

\* The position buffers of the scene of a slot
BuffersOf(slot) == [ f \in {"core", "shell", "spikes", "atmosphere"} |-> ret.clouds[slot][f] ]

\* C18: Generation is pure per call.  Two mounted Virus3D that show the same
\* token id have the same scene: the same traits, palette and placement and
\* the same core, shell, spike and atmosphere position buffers.
C18_SameSceneForSameId ==
    call.fn = "scene"
    => \A s, t \in Slots :
          ( /\ Mounted(s) /\ Mounted(t)
            /\ ret.clouds[s].built /\ ret.clouds[t].built
            /\ comp[s].tokenId = comp[t].tokenId )
          => /\ comp[s].traits = comp[t].traits
             /\ comp[s].palette.value = comp[t].palette.value
             /\ comp[s].spikes.value = comp[t].spikes.value
             /\ BuffersOf(s) = BuffersOf(t)

\* C21: Memoization never serves a stale organism.  For every mounted Virus3D,
\* after any sequence of mounts and tokenId prop changes, the palette in use
\* equals getPalette of the hue and alignment derived from the current
\* tokenId, the spike placement in use equals the placement loop run for the
\* count and seed prop of the current tokenId, and both memo cells carry the
\* dependencies of the current traits.
C21_MemoNeverStale ==
    \A s \in Slots :
        Mounted(s)
        => LET c == comp[s]
               traits == DecodeTraits(c.variant, keccak[PackedInput(c.variant, c.tokenId)])
               alignment == IF "alignment" \in DOMAIN traits THEN traits.alignment ELSE "none"
           IN  /\ c.palette.value = PaletteOf(c.variant, traits.hue, alignment)
               /\ c.spikes.value = PlacedSpikes[c.variant, keccak[PackedInput(c.variant, c.tokenId)]]
               /\ c.palette.deps = PaletteDeps(c.variant, traits)
               /\ c.spikes.deps = SpikesDeps(c.variant, traits)

\* Both token ids have been shown by renderers of part_004 (first renderer);
\* their seeds have the same spike count and different seed props, so the
\* count alone would not tell the two placements apart.
C21_Witness ==
    /\ Mounted("a") /\ Mounted("b")
    /\ comp["a"].variant = "lore" /\ comp["b"].variant = "lore"
    /\ comp["a"].tokenId # comp["b"].tokenId
    /\ comp["a"].traits.spikeCount = comp["b"].traits.spikeCount
    /\ comp["a"].traits.spikeSeed # comp["b"].traits.spikeSeed
    /\ comp["a"].spikes.value # comp["b"].spikes.value

\* The core edge 0.25 and the largest displacement 0.15 + 0.03
CoreEdge == Scale \div 4

MaxDisplacement == (18 * Scale) \div 100

\* C22: The body shell follows the displacement field for every random draw.
\* For all values of the three random variates in 0..1 (1 excluded), the
\* radius r of the shell particle satisfies 0.25 <= r < 1 +
\* getRuggedDisplacement(theta, phi), the displacement is at most 0.18 in
\* absolute value, and the stored point lies at distance r from the centre:
\* not inside the core edge, not outside the displaced surface.
C22_ShellWithinSurface ==
    (call.fn = "shell" /\ ret.done)
    => LET p == ret.value
           surface == Scale + getRuggedDisplacement(p.theta, p.phi)
       IN  /\ CoreEdge <= p.r
           /\ p.r < surface
           /\ Abs(p.displacement) <= MaxDisplacement
           /\ Abs(Norm(p.pos) - p.r) <= Tolerance
           /\ Norm(p.pos) >= CoreEdge - Tolerance
           /\ Norm(p.pos) <= surface + Tolerance

\* A particle drawn with the largest third variate where the surface is pressed
\* in: it lies just below the displaced surface, inside the unit sphere.
C22_Witness ==
    /\ call.fn = "shell" /\ ret.done
    /\ call.u3 = Scale - 1
    /\ ret.value.displacement < -(Scale \div 10)
    /\ ret.value.r > (8 * Scale) \div 10
    /\ ret.value.r < Scale
\* ---------------------------------------------------------------------------
\* The mint application: ViralStrainApp (components/ViralStrainApp.tsx) and the
\* two Home components of app/page.tsx ("Home": lines 25-, "HomeMiniKit":
\* lines 417-).  React state is kept in ret, the environment (chain, SDK,
\* pending handler runs) in call.  Every await of a handler is one step whose
\* outcome (resolved, rejected, timed out) is chosen when the step is taken.
\* ---------------------------------------------------------------------------

\* init passes that can be pending at the same time
MaxInitRuns == 2

\* runs of handleMint / handleTestGeneration that can be pending at the same time
MaxMintRuns == 1

Apps == {"ViralStrainApp", "HomeMiniKit", "Home"}

\* The FID of the user in the Farcaster context, and a FID drawn by handleTestGeneration
UserFid == 1

TestFid == 10000

\* fid values a context delivers: none (0) or the user's
Fids == {0, UserFid}

\* Messages are sequences of words
NoMessage == << >>

\* e.message of a rejected promise
Rejections == { NoMessage, <<"User", "rejected", "the", "request">>, <<"Failed", "to", "fetch">> }

\* errData.error of a response that is not ok
ApiErrors == { NoMessage, <<"Already", "Minted">> }

\* a || b on strings
OrElse(a, b) == IF a = NoMessage THEN b ELSE a

\* msg.includes(needle)
Includes(msg, needle) ==
    \E k \in 1..(Len(msg) - Len(needle) + 1) : SubSeq(msg, k, k + Len(needle) - 1) = needle

\* The message the catch block of a handler stores
CatchMessageVerbatim(handler, message) ==
    IF handler = "handleTestGeneration"
    THEN OrElse(message, <<"Test", "Failed">>)
    ELSE OrElse(message, <<"Something", "went", "wrong">>)

CatchMessage(handler, message) ==
    IF handler = "handleTestGeneration"
    THEN OrElse(message, <<"Test", "Failed">>)
    ELSE LET msg == OrElse(message, <<"Something", "went", "wrong">>)
         IN  IF Includes(msg, <<"User", "rejected">>) THEN <<"Transaction", "Cancelled">> ELSE msg

\* The awaits of a handler run, in program order
Flow(app, handler, installed) ==
    IF handler = "handleTestGeneration"
    THEN <<"getEthereumProvider", "requestAddresses", "fetch",
           "writeContract", "waitForTransactionReceipt", "tokenURI">>
    ELSE IF app = "Home"
    THEN <<"getEthereumProvider", "requestAddresses", "switchChain", "getToken", "fetch",
           "writeContract", "waitForTransactionReceipt", "tokenURI">>
    ELSE IF installed
    THEN <<"getToken", "getWalletAddress", "fetch", "sendTransaction">>
    ELSE <<"getToken", "getEthereumProvider", "requestAddresses", "fetch", "switchChain",
           "writeContract", "waitForTransactionReceipt", "tokenURI">>

After(flow, pc) == flow[(CHOOSE k \in 1..Len(flow) : flow[k] = pc) + 1]

InitRuns == 1..MaxInitRuns

MintRuns == 1..MaxMintRuns

NoInit == [ pc |-> "off", fid |-> 0 ]

NoMint == [ pc |-> "off", handler |-> "handleMint", tx |-> "none" ]

\* useState initial values
InitialState ==
    [ status |-> "loading", txHash |-> "", errorMsg |-> NoMessage, userFid |-> 0,
      activeFid |-> 0, nftImageUrl |-> "null", mintPrice |-> "default" ]

\* The first render: the effect has started the first init pass
InitApp ==
    /\ keccak = << >>
    /\ comp = [ slot \in Slots |-> Unmounted ]
    /\ \E app \in Apps, installed \in BOOLEAN, minted \in BOOLEAN :
          /\ (app = "Home" => ~installed)
          /\ call = [ fn |-> "app", app |-> app, installed |-> installed, minted |-> minted,
                      ready |-> FALSE, reload |-> FALSE, orphan |-> FALSE,
                      inits |-> [ i \in InitRuns |-> IF i = 1 THEN [ pc |-> "race", fid |-> 0 ] ELSE NoInit ],
                      mints |-> [ m \in MintRuns |-> NoMint ] ]
    /\ ret = InitialState

InitAt(i, pc) == call.fn = "app" /\ call.inits[i].pc = pc

\* finally { sdk.actions.ready() }
InitDone(i) == call' = [ call EXCEPT !.inits[i].pc = "done", !.ready = TRUE ]

FreeInit(i) ==
    /\ call.inits[i].pc \in {"off", "done"}
    /\ \A j \in InitRuns : j < i => call.inits[j].pc \notin {"off", "done"}

\* useEffect(..., [context]): a new context object starts another init pass
ContextChange ==
    /\ call.fn = "app"
    /\ call.app # "Home"
    /\ \E i \in InitRuns :
          /\ FreeInit(i)
          /\ call' = [ call EXCEPT !.inits[i] = [ pc |-> "race", fid |-> 0 ] ]
    /\ UNCHANGED <<keccak, comp, ret>>

\* await Promise.race([sdk.context, timeout]) / await sdk.context
InitRace(i) ==
    /\ InitAt(i, "race")
    /\ \/ \* sdk.context rejected: catch
          /\ ret' = [ ret EXCEPT !.status = "idle" ]
          /\ InitDone(i)
       \/ \* no context: the timeout won, or the context resolved to nothing
          /\ IF call.app = "ViralStrainApp"
             THEN \E fid \in Fids : ret' = [ ret EXCEPT !.userFid = fid ]
             ELSE ret' = [ ret EXCEPT !.status = "idle" ]
          /\ InitDone(i)
       \/ \* the context resolved
          \E fid \in Fids :
             CASE call.app = "ViralStrainApp" ->
                    /\ ret' = [ ret EXCEPT !.userFid = fid ]
                    /\ call' = [ call EXCEPT !.inits[i] = [ pc |-> "price", fid |-> fid ] ]
               [] call.app = "HomeMiniKit" ->
                    IF fid > 0
                    THEN /\ ret' = [ ret EXCEPT !.userFid = fid ]
                         /\ call' = [ call EXCEPT !.inits[i] = [ pc |-> "hasMinted", fid |-> fid ] ]
                    ELSE /\ ret' = [ ret EXCEPT !.userFid = fid, !.status = "idle" ]
                         /\ InitDone(i)
               [] call.app = "Home" ->
                    /\ ret' = [ ret EXCEPT !.userFid = fid, !.activeFid = fid ]
                    /\ call' = [ call EXCEPT !.inits[i] = [ pc |-> "hasMinted", fid |-> fid ] ]
    /\ UNCHANGED <<keccak, comp>>

\* await publicClient.readContract({ functionName: 'price' }) in its own try/catch
InitPrice(i) ==
    /\ InitAt(i, "price")
    /\ \E ok \in BOOLEAN :
          LET r == IF ok THEN [ ret EXCEPT !.mintPrice = "chain" ] ELSE ret
          IN  IF call.inits[i].fid > 0
              THEN /\ ret' = r
                   /\ call' = [ call EXCEPT !.inits[i].pc = "hasMinted" ]
              ELSE /\ ret' = [ r EXCEPT !.status = "idle" ]
                   /\ InitDone(i)
    /\ UNCHANGED <<keccak, comp>>

\* await publicClient.readContract({ functionName: 'hasMinted', args: [BigInt(fid)] })
InitHasMinted(i) ==
    /\ InitAt(i, "hasMinted")
    /\ \/ /\ ret' = [ ret EXCEPT !.status = "idle" ]
          /\ InitDone(i)
       \/ IF call.minted /\ call.inits[i].fid = UserFid
          THEN /\ ret' = [ ret EXCEPT !.status = "minted" ]
               /\ call' = [ call EXCEPT !.inits[i].pc = "tokenURI" ]
          ELSE /\ ret' = [ ret EXCEPT !.status = "idle" ]
               /\ InitDone(i)
    /\ UNCHANGED <<keccak, comp>>

\* decodeTokenUri: the image of the metadata, "" when it cannot be decoded
Images == {"image", ""}

\* await publicClient.readContract({ functionName: 'tokenURI' }); setNftImageUrl
InitTokenURI(i) ==
    /\ InitAt(i, "tokenURI")
    /\ \/ ret' = [ ret EXCEPT !.status = "idle" ]
       \/ \E image \in Images : ret' = [ ret EXCEPT !.nftImageUrl = image ]
    /\ InitDone(i)
    /\ UNCHANGED <<keccak, comp>>

MintAt(m, pc) == call.fn = "app" /\ call.mints[m].pc = pc

FreeMint(m) ==
    /\ call.mints[m].pc \in {"off", "returned", "done"}
    /\ \A j \in MintRuns : j < m => call.mints[j].pc \notin {"off", "returned", "done"}

\* A transaction whose run is gone is still in the mempool
Orphaned(m) == call.orphan \/ call.mints[m].tx = "pending"

\* onClick={handleMint}: the button of the idle panel; the guard on 'minted'
HandleMint(m) ==
    /\ call.fn = "app"
    /\ FreeMint(m)
    /\ ret.status \in {"idle", "minted"}
    /\ IF ret.status = "minted"
       THEN /\ call' = [ call EXCEPT !.mints[m] = [ pc |-> "returned", handler |-> "handleMint", tx |-> "none" ],
                                     !.orphan = Orphaned(m) ]
            /\ ret' = ret
       ELSE /\ call' = [ call EXCEPT !.mints[m] = [ pc |-> Flow(call.app, "handleMint", call.installed)[1],
                                                    handler |-> "handleMint", tx |-> "none" ],
                                     !.orphan = Orphaned(m) ]
            /\ ret' = [ ret EXCEPT !.status = "loading", !.errorMsg = NoMessage ]
    /\ UNCHANGED <<keccak, comp>>

\* onClick={handleTestGeneration}: the button of the success / minted panel of Home
HandleTestGeneration(m) ==
    /\ call.fn = "app"
    /\ call.app = "Home"
    /\ FreeMint(m)
    /\ ret.status \in {"success", "minted"}
    /\ call' = [ call EXCEPT !.mints[m] = [ pc |-> Flow(call.app, "handleTestGeneration", call.installed)[1],
                                            handler |-> "handleTestGeneration", tx |-> "none" ],
                             !.orphan = Orphaned(m) ]
    /\ ret' = [ ret EXCEPT !.status = "loading", !.errorMsg = NoMessage, !.activeFid = TestFid ]
    /\ UNCHANGED <<keccak, comp>>

\* catch (e) { ... setErrorMsg(msg); setStatus('error') }
Throw(m, message) ==
    /\ ret' = [ ret EXCEPT !.errorMsg = CatchMessage(call.mints[m].handler, message), !.status = "error" ]
    /\ call' = [ call EXCEPT !.mints[m].pc = "done" ]

\* the run goes on to its next await
Resume(m) ==
    call' = [ call EXCEPT !.mints[m].pc = After(Flow(call.app, call.mints[m].handler, call.installed), call.mints[m].pc) ]

\* await sdk.quickAuth.getToken()
MintGetToken(m) ==
    /\ MintAt(m, "getToken")
    /\ \/ \E e \in Rejections : Throw(m, e)
       \/ Resume(m) /\ ret' = ret
    /\ UNCHANGED <<keccak, comp>>

\* await miniKitGlobal.commands.getWalletAddress()
MintGetWalletAddress(m) ==
    /\ MintAt(m, "getWalletAddress")
    /\ \/ \E e \in Rejections : Throw(m, e)
       \/ Resume(m) /\ ret' = ret
    /\ UNCHANGED <<keccak, comp>>

\* await sdk.wallet.getEthereumProvider(); if (!provider) throw
MintGetEthereumProvider(m) ==
    /\ MintAt(m, "getEthereumProvider")
    /\ \/ \E e \in Rejections : Throw(m, e)
       \/ Throw(m, <<"No", "Wallet", "Found">>)
       \/ Resume(m) /\ ret' = ret
    /\ UNCHANGED <<keccak, comp>>

\* await walletClient.requestAddresses()
MintRequestAddresses(m) ==
    /\ MintAt(m, "requestAddresses")
    /\ \/ \E e \in Rejections : Throw(m, e)
       \/ Resume(m) /\ ret' = ret
    /\ UNCHANGED <<keccak, comp>>

\* try { await walletClient.switchChain(...) } catch (e) { console.warn(...) }
MintSwitchChain(m) ==
    /\ MintAt(m, "switchChain")
    /\ Resume(m)
    /\ UNCHANGED <<keccak, comp, ret>>

\* await fetch('/api/mint' or '/api/test-sign'); if (!response.ok) throw; setStatus('minting')
MintFetch(m) ==
    /\ MintAt(m, "fetch")
    /\ \/ \E e \in Rejections : Throw(m, e)
       \/ IF call.mints[m].handler = "handleTestGeneration"
          THEN Throw(m, <<"Test", "Signer", "Failed">>)
          ELSE \E error \in ApiErrors : Throw(m, OrElse(error, <<"Verification", "Failed">>))
       \/ /\ Resume(m)
          /\ ret' = [ ret EXCEPT !.status = "minting" ]
    /\ UNCHANGED <<keccak, comp>>

\* await miniKitGlobal.commands.sendTransaction(...); commandId or throw
MintSendTransaction(m) ==
    /\ MintAt(m, "sendTransaction")
    /\ \/ \E e \in Rejections : Throw(m, e)
       \/ Throw(m, <<"Transaction", "disregarded">>)
       \/ /\ call' = [ call EXCEPT !.mints[m].pc = "done", !.mints[m].tx = "pending", !.reload = TRUE ]
          /\ ret' = [ ret EXCEPT !.status = "success" ]
    /\ UNCHANGED <<keccak, comp>>

\* await walletClient.writeContract(...); setTxHash(hash)
MintWriteContract(m) ==
    /\ MintAt(m, "writeContract")
    /\ \/ \E e \in Rejections : Throw(m, e)
       \/ /\ call' = [ call EXCEPT !.mints[m].pc = "waitForTransactionReceipt", !.mints[m].tx = "pending" ]
          /\ ret' = [ ret EXCEPT !.txHash = "hash" ]
    /\ UNCHANGED <<keccak, comp>>

\* await publicClient.waitForTransactionReceipt({ hash })
MintWaitForTransactionReceipt(m) ==
    /\ MintAt(m, "waitForTransactionReceipt")
    /\ \/ \E e \in Rejections : Throw(m, e)
       \/ /\ call.mints[m].tx # "pending"
          /\ Resume(m)
          /\ ret' = ret
    /\ UNCHANGED <<keccak, comp>>

\* await publicClient.readContract({ functionName: 'tokenURI' }); setNftImageUrl; setStatus('success')
MintTokenURI(m) ==
    /\ MintAt(m, "tokenURI")
    /\ \/ \E e \in Rejections : Throw(m, e)
       \/ \E image \in Images :
             /\ ret' = [ ret EXCEPT !.nftImageUrl = image, !.status = "success" ]
             /\ call' = [ call EXCEPT !.mints[m].pc = "done" ]
    /\ UNCHANGED <<keccak, comp>>

\* The chain includes a pending transaction: the mint of the user's FID takes
\* effect once; a mint of a minted FID, or any other failure, reverts
TxIncluded(m) ==
    /\ call.fn = "app"
    /\ call.mints[m].tx = "pending"
    /\ \/ /\ call.mints[m].handler = "handleMint" => ~call.minted
          /\ call' = [ call EXCEPT !.mints[m].tx = "mined",
                                   !.minted = (@ \/ call.mints[m].handler = "handleMint") ]
       \/ call' = [ call EXCEPT !.mints[m].tx = "reverted" ]
    /\ UNCHANGED <<keccak, comp, ret>>

OrphanIncluded ==
    /\ call.fn = "app"
    /\ call.orphan
    /\ \E minted \in BOOLEAN : call' = [ call EXCEPT !.orphan = FALSE, !.minted = (@ \/ minted) ]
    /\ UNCHANGED <<keccak, comp, ret>>

\* onClick={() => setStatus('idle')}: the button of the error panel
ResetSystem ==
    /\ call.fn = "app"
    /\ ret.status = "error"
    /\ ret' = [ ret EXCEPT !.status = "idle" ]
    /\ UNCHANGED <<keccak, comp, call>>

\* setTimeout(() => window.location.reload(), 4000): the page starts again
Reload ==
    /\ call.fn = "app"
    /\ call.reload
    /\ call' = [ call EXCEPT !.ready = FALSE, !.reload = FALSE,
                             !.orphan = (@ \/ \E m \in MintRuns : call.mints[m].tx = "pending"),
                             !.inits = [ i \in InitRuns |-> IF i = 1 THEN [ pc |-> "race", fid |-> 0 ] ELSE NoInit ],
                             !.mints = [ m \in MintRuns |-> NoMint ] ]
    /\ ret' = InitialState
    /\ UNCHANGED <<keccak, comp>>

NextApp ==
    \/ ContextChange
    \/ \E i \in InitRuns : InitRace(i)
    \/ \E i \in InitRuns : InitPrice(i)
    \/ \E i \in InitRuns : InitHasMinted(i)
    \/ \E i \in InitRuns : InitTokenURI(i)
    \/ \E m \in MintRuns : HandleMint(m)
    \/ \E m \in MintRuns : HandleTestGeneration(m)
    \/ \E m \in MintRuns : MintGetToken(m)
    \/ \E m \in MintRuns : MintGetWalletAddress(m)
    \/ \E m \in MintRuns : MintGetEthereumProvider(m)
    \/ \E m \in MintRuns : MintRequestAddresses(m)
    \/ \E m \in MintRuns : MintSwitchChain(m)
    \/ \E m \in MintRuns : MintFetch(m)
    \/ \E m \in MintRuns : MintSendTransaction(m)
    \/ \E m \in MintRuns : MintWriteContract(m)
    \/ \E m \in MintRuns : MintWaitForTransactionReceipt(m)
    \/ \E m \in MintRuns : MintTokenURI(m)
    \/ \E m \in MintRuns : TxIncluded(m)
    \/ OrphanIncluded
    \/ ResetSystem
    \/ Reload

SpecApp == InitApp /\ [][NextApp]_vars

\* C23: Initialisation always leaves the loading state.  In ViralStrainApp
\* every init pass sets status to 'idle' or 'minted' before it ends, on every
\* path (context resolved, context read failing, contract reads failing, the
\* context not resolving within the timeout), and has called
\* sdk.actions.ready() when it ends: the step that ends a pass, or that takes
\* it to the tokenURI read, is a step that sets the status.
C23_InitLeavesLoading ==
    [][ \A i \in InitRuns :
          ( /\ call.fn = "app" /\ call.app = "ViralStrainApp"
            /\ call.inits[i].pc \in {"race", "price", "hasMinted"}
            /\ call'.inits[i].pc \in {"tokenURI", "done"} )
          => /\ ret'.status \in {"idle", "minted"}
             /\ call'.inits[i].pc = "done" => call'.ready ]_vars

\* A run of handleMint is in flight: it has set 'loading' and has reached
\* neither 'success' nor the catch
InFlight(m) == call.mints[m].pc \notin {"off", "returned", "done"}

\* C24: No interference between init and an in-flight mint.  In ViralStrainApp
\* and in the Home of page.tsx lines 417-, while a run of handleMint is in
\* flight no init pass has set status to 'idle' or 'minted': the status is
\* 'loading' or 'minting', so the MINT button is not offered.
C24_NoInterference ==
    (call.fn = "app" /\ call.app \in {"ViralStrainApp", "HomeMiniKit"})
    => \A m \in MintRuns :
          (InFlight(m) /\ call.mints[m].handler = "handleMint")
          => ret.status \notin {"idle", "minted"}

\* C25: 'minted' is stable.  In ViralStrainApp, once init has observed
\* hasMinted = true and set status to 'minted', no later event (a handleMint
\* call, an init pass after a context change, a failing contract read) brings
\* the status to 'idle', and handleMint invoked with status 'minted' changes
\* no state.
C25_MintedStable ==
    [][ (call.fn = "app" /\ call.app = "ViralStrainApp" /\ ret.status = "minted")
        => /\ ret'.status # "idle"
           /\ (\E m \in MintRuns : call'.mints[m].pc = "returned" /\ call.mints[m].pc # "returned")
              => ret' = ret ]_vars

\* The continuation of a pending run: the step after whichever await it is at
MintStep(m) ==
    \/ MintGetToken(m)
    \/ MintGetWalletAddress(m)
    \/ MintGetEthereumProvider(m)
    \/ MintRequestAddresses(m)
    \/ MintSwitchChain(m)
    \/ MintFetch(m)
    \/ MintSendTransaction(m)
    \/ MintWriteContract(m)
    \/ MintWaitForTransactionReceipt(m)
    \/ MintTokenURI(m)

\* Every promise a run awaits settles (resolves, rejects or times out), and the
\* event loop then runs the continuation of that run
SpecAppFair == SpecApp /\ \A m \in MintRuns : WF_vars(MintStep(m))

\* The step ends run m of handleMint
MintEnds(m) ==
    /\ call.fn = "app"
    /\ call.mints[m].handler = "handleMint"
    /\ InFlight(m)
    /\ call'.mints[m].pc = "done"

Routes == {"mint", "mintSepolia", "test-sign"}

\* FIDs that tokens and bodies name
SignFids == {1, 2}

\* userAddress of the body: two addresses and a string that is no address
BodyAddresses == {"0xA", "0xB", "bad"}

isAddress(a) == a # "bad"

\* The subject of the token of the body: a FID, or none for a token that
\* verifyJwt rejects (and for a body without token)
NoSubject == 0

TokenSubjects == SignFids \cup {NoSubject}

\* The hash input of the voucher of a route
MessageHashInput(route, userAddress, fid) ==
    IF route = "mint"
    THEN <<"encodeAbiParameters", userAddress, fid, "contractAddress", "base.id">>
    ELSE <<"encodePacked", userAddress, fid>>

\* NextResponse.json(body, { status })
Response(status, body) == [ done |-> TRUE, status |-> status, body |-> body ]

ErrorBody(error) == [ error |-> error ]

\* The catch block of a route
CatchResponse(route, message) ==
    IF route = "mint"
    THEN Response(401, ErrorBody(OrElse(message, <<"Unauthorized">>)))
    ELSE IF route = "mintSepolia"
    THEN Response(401, ErrorBody(<<"Unauthorized">>))
    ELSE Response(401, ErrorBody(<<"Test", "Signer", "Failed">>))

InitSign ==
    /\ keccak = << >>
    /\ comp = [ slot \in Slots |-> Unmounted ]
    /\ call \in [ fn : {"sign"}, route : Routes, configured : BOOLEAN,
                  token : TokenSubjects, testFid : SignFids, userAddress : BodyAddresses,
                  minted : SUBSET SignFids,
                  pc : {"start"}, sub : {NoSubject}, hasMinted : {"none"}, messageHash : {<< >>} ]
    /\ ret = Pending

SignAt(pc) == call.fn = "sign" /\ call.pc = pc

\* the environment check, privateKeyToAccount and await req.json()
SignStart ==
    /\ SignAt("start")
    /\ IF ~call.configured
       THEN /\ ret' = Response(500, ErrorBody(IF call.route = "mint" THEN <<"Config", "Error">>
                                                                  ELSE <<"Server", "Config", "Error">>))
            /\ call' = [ call EXCEPT !.pc = "done" ]
       ELSE \/ /\ ret' = CatchResponse(call.route, <<"Unexpected", "end", "of", "JSON", "input">>)
               /\ call' = [ call EXCEPT !.pc = "done" ]
            \/ IF call.route = "test-sign"
               THEN IF ~isAddress(call.userAddress)
                    THEN /\ ret' = Response(400, ErrorBody(<<"Invalid", "Wallet", "Address">>))
                         /\ call' = [ call EXCEPT !.pc = "done" ]
                    ELSE /\ ret' = ret
                         /\ call' = [ call EXCEPT !.pc = "signMessage",
                                         !.messageHash = MessageHashInput(call.route, call.userAddress, call.testFid) ]
               ELSE /\ ret' = ret
                    /\ call' = [ call EXCEPT !.pc = "verifyJwt" ]
    /\ UNCHANGED <<keccak, comp>>

\* await authClient.verifyJwt({ token, domain }); fid = result.sub
SignVerifyJwt ==
    /\ SignAt("verifyJwt")
    /\ IF call.token = NoSubject
       THEN /\ ret' = CatchResponse(call.route, <<"Invalid", "token">>)
            /\ call' = [ call EXCEPT !.pc = "done" ]
       ELSE /\ ret' = ret
            /\ call' = [ call EXCEPT !.pc = "hasMinted", !.sub = call.token ]
    /\ UNCHANGED <<keccak, comp>>

\* await publicClient.readContract({ functionName: 'hasMinted', args: [BigInt(fid)] })
\* and the hash of the voucher
SignHasMinted ==
    /\ SignAt("hasMinted")
    /\ \/ /\ ret' = CatchResponse(call.route, <<"HTTP", "request", "failed">>)
          /\ call' = [ call EXCEPT !.pc = "done" ]
       \/ IF call.sub \in call.minted
          THEN /\ ret' = Response(400, ErrorBody(<<"Already", "Minted">>))
               /\ call' = [ call EXCEPT !.pc = "done", !.hasMinted = "true" ]
          ELSE IF ~isAddress(call.userAddress)
          THEN /\ ret' = CatchResponse(call.route, <<"Address", "is", "invalid">>)
               /\ call' = [ call EXCEPT !.pc = "done", !.hasMinted = "false" ]
          ELSE /\ ret' = ret
               /\ call' = [ call EXCEPT !.pc = "signMessage", !.hasMinted = "false",
                               !.messageHash = MessageHashInput(call.route, call.userAddress, call.sub) ]
    /\ UNCHANGED <<keccak, comp>>

\* await adminAccount.signMessage({ message: { raw: messageHash } }) and the response
SignMessage ==
    /\ SignAt("signMessage")
    /\ ret' = Response(200, [ fid |-> IF call.route = "test-sign" THEN call.testFid ELSE call.sub,
                              signature |-> [ signer |-> "ADMIN_PRIVATE_KEY", message |-> call.messageHash ] ])
    /\ call' = [ call EXCEPT !.pc = "done" ]
    /\ UNCHANGED <<keccak, comp>>

\* Somebody mints FID f on the chain while the request is being handled
MintOnChain(f) ==
    /\ call.fn = "sign"
    /\ call.pc # "done"
    /\ f \notin call.minted
    /\ call' = [ call EXCEPT !.minted = @ \cup {f} ]
    /\ UNCHANGED <<keccak, comp, ret>>

NextSign ==
    \/ SignStart
    \/ SignVerifyJwt
    \/ SignHasMinted
    \/ SignMessage
    \/ \E f \in SignFids : MintOnChain(f)

SpecSign == InitSign /\ [][NextSign]_vars

\* The response carries a signature
Signed == ret.done /\ ret.status = 200 /\ "signature" \in DOMAIN ret.body

\* C26: A voucher is signed only for an authenticated, not-yet-minted FID.  In
\* each signing route, a response that carries a signature for FID f and
\* address a was produced after verifyJwt accepted the token of the request
\* with subject f and after the hasMinted(f) read returned false; f is the
\* token's subject, not a value of the body; and when the read returned true
\* the response is 400 'Already Minted' without a signature.
C26_SignedOnlyAuthenticated ==
    call.fn = "sign"
    => /\ Signed
          => /\ call.sub # NoSubject
             /\ call.sub = call.token
             /\ call.hasMinted = "false"
             /\ ret.body.fid = call.sub
             /\ ret.body.signature.message = MessageHashInput(call.route, call.userAddress, call.sub)
       /\ (ret.done /\ call.hasMinted = "true")
          => ret = Response(400, ErrorBody(<<"Already", "Minted">>))

\* ---------------------------------------------------------------------------
\* The view-3d page: connectAndFetch of the balance-scan version ("scan",
\* view-3d/page.tsx lines 31-) and of the ownerOf version ("ownerOf", lines
\* 271-).  React state is kept in ret, the run of connectAndFetch (its position
\* and locals) in call; every await is one step whose outcome is chosen when
\* the step is taken.
\* ---------------------------------------------------------------------------
ViewerPages == {"scan", "ownerOf"}

\* the tokens of one wallet that a scan looks at
MaxBalance == 2

\* balance > BigInt(10) ? BigInt(10) : balance
ScanLimit == 10

\* useState<number | null>(null)
Null == -1

\* context.user.fid of the viewer's user; 0 stands for a missing fid
ViewerFid == 2

\* Addresses as the wallet and the contract spell them
Spellings == {"0xabc", "0xAbC", "0xdef", "0xDeF"}

toLowerCase(a) ==
    IF a \in {"0xabc", "0xAbC"} THEN "0xabc" ELSE IF a \in {"0xdef", "0xDeF"} THEN "0xdef" ELSE a

\* getAddress: the checksum spelling
getAddress(a) == IF toLowerCase(a) = "0xabc" THEN "0xAbC" ELSE "0xDeF"

\* owner.toLowerCase() === checksumAddress.toLowerCase()
SameOwnerStrict(owner, checksumAddress) == owner = checksumAddress

SameOwner(owner, checksumAddress) == toLowerCase(owner) = toLowerCase(checksumAddress)

\* e.message of a failing contract read, in fragments
ReadFailures ==
    { NoMessage, <<"HTTP request failed">>, <<"execution ", "revert", "ed">>,
      <<"URI query for ", "nonexistent", " token">>, <<"ERC721: ", "invalid token", " ID">> }

\* err.message && (includes("revert") || includes("nonexistent") || includes("invalid token"))
MissingToken(message) ==
    /\ message # NoMessage
    /\ \/ Includes(message, <<"revert">>)
       \/ Includes(message, <<"nonexistent">>)
       \/ Includes(message, <<"invalid token">>)

\* ids tokenOfOwnerByIndex returns
ScanIds == {1, 2, 9}

ViewerState(page) ==
    IF page = "scan"
    THEN [ loadingState |-> "connecting", ownedTokens |-> << >>, selectedTokenId |-> Null,
           userAddress |-> "" ]
    ELSE [ loadingState |-> "connecting", ownedTokens |-> << >>, selectedTokenId |-> Null,
           userAddress |-> "", scanStatus |-> "Initializing connection...",
           errorMessage |-> NoMessage, targetFid |-> 0 ]

\* The locals of a run at its first await
ViewerRun(page) ==
    [ fn |-> "viewer", page |-> page,
      pc |-> IF page = "scan" THEN "getEthereumProvider" ELSE "context",
      address |-> "", fid |-> 0, limit |-> 0, i |-> 0, tokenId |-> 0, tokensList |-> << >>,
      owner |-> "", image |-> "", thrown |-> NoMessage, done |-> FALSE ]

\* useEffect(() => { sdk.actions.ready(); connectAndFetch(); }, [])
InitViewer ==
    /\ keccak = << >>
    /\ comp = [ slot \in Slots |-> Unmounted ]
    /\ \E page \in ViewerPages :
          /\ call = ViewerRun(page)
          /\ ret = ViewerState(page)

ViewerAt(pc) == call.fn = "viewer" /\ ~call.done /\ call.pc = pc

\* The outer catch of connectAndFetch
ViewerCatch(message) ==
    /\ ret' = IF call.page = "scan"
              THEN [ ret EXCEPT !.loadingState = "error" ]
              ELSE [ ret EXCEPT !.loadingState = "error",
                                !.errorMessage = OrElse(message, <<"Unknown error occurred">>) ]
    /\ call' = [ call EXCEPT !.done = TRUE, !.thrown = message ]

\* The inner catch around the ownerOf and tokenURI reads
ViewerInnerCatch(message) ==
    IF MissingToken(message)
    THEN /\ ret' = [ ret EXCEPT !.loadingState = "no-assets" ]
         /\ call' = [ call EXCEPT !.done = TRUE, !.thrown = message ]
    ELSE ViewerCatch(message)

\* await sdk.context; if (!fid) ...; setTargetFid(fid)
ViewerContext ==
    /\ ViewerAt("context")
    /\ \/ \E e \in ReadFailures : ViewerCatch(e)
       \/ /\ ret' = [ ret EXCEPT !.errorMessage = <<"No Farcaster ID found. Please open in Warpcast.">>,
                                 !.loadingState = "error" ]
          /\ call' = [ call EXCEPT !.done = TRUE ]
       \/ /\ ret' = [ ret EXCEPT !.targetFid = ViewerFid ]
          /\ call' = [ call EXCEPT !.pc = "getEthereumProvider", !.fid = ViewerFid ]
    /\ UNCHANGED <<keccak, comp>>

\* await sdk.wallet.getEthereumProvider(); if (!provider) throw
ViewerGetEthereumProvider ==
    /\ ViewerAt("getEthereumProvider")
    /\ \/ \E e \in ReadFailures : ViewerCatch(e)
       \/ ViewerCatch(<<"Wallet provider not found">>)
       \/ /\ ret' = ret
          /\ call' = [ call EXCEPT !.pc = "requestAddresses" ]
    /\ UNCHANGED <<keccak, comp>>

\* await walletClient.requestAddresses(); setUserAddress; setLoadingState
ViewerRequestAddresses ==
    /\ ViewerAt("requestAddresses")
    /\ \/ \E e \in ReadFailures : ViewerCatch(e)
       \/ \E address \in {"0xabc", "0xAbC"} :
             IF call.page = "scan"
             THEN /\ ret' = [ ret EXCEPT !.userAddress = address, !.loadingState = "scanning" ]
                  /\ call' = [ call EXCEPT !.pc = "balanceOf", !.address = address ]
             ELSE /\ ret' = [ ret EXCEPT !.userAddress = getAddress(address), !.loadingState = "verifying",
                                         !.scanStatus = "Locating Strain..." ]
                  /\ call' = [ call EXCEPT !.pc = "ownerOf", !.address = getAddress(address) ]
    /\ UNCHANGED <<keccak, comp>>

\* await readContract balanceOf; no-assets for 0; the limit of the loop
ViewerBalanceOf ==
    /\ ViewerAt("balanceOf")
    /\ \/ \E e \in ReadFailures : ViewerCatch(e)
       \/ \E balance \in 0..MaxBalance :
             IF balance = 0
             THEN /\ ret' = [ ret EXCEPT !.loadingState = "no-assets" ]
                  /\ call' = [ call EXCEPT !.done = TRUE ]
             ELSE /\ ret' = ret
                  /\ call' = [ call EXCEPT !.pc = "tokenOfOwnerByIndex", !.i = 0, !.tokensList = << >>,
                                  !.limit = IF balance > ScanLimit THEN ScanLimit ELSE balance ]
    /\ UNCHANGED <<keccak, comp>>

\* await readContract tokenOfOwnerByIndex(address, i)
ViewerTokenOfOwnerByIndex ==
    /\ ViewerAt("tokenOfOwnerByIndex")
    /\ \/ \E e \in ReadFailures : ViewerCatch(e)
       \/ \E tokenId \in ScanIds :
             /\ \A k \in DOMAIN call.tokensList : call.tokensList[k].id # ToNumber(tokenId)
             /\ ret' = ret
             /\ call' = [ call EXCEPT !.pc = "tokenURI", !.tokenId = tokenId ]
    /\ UNCHANGED <<keccak, comp>>

\* The end of the loop of the scan: setOwnedTokens, the default selection, 'ready'
ScanEnd(tokensList) ==
    [ ret EXCEPT !.ownedTokens = tokensList,
                 !.selectedTokenId = IF Len(tokensList) > 0 THEN tokensList[1].id ELSE @,
                 !.loadingState = "ready" ]

\* await readContract tokenURI; decodeTokenImage; the rest of the loop body, or
\* the ownership branch of the ownerOf version
ViewerTokenURI ==
    /\ ViewerAt("tokenURI")
    /\ IF call.page = "scan"
       THEN \/ \E e \in ReadFailures : ViewerCatch(e)
            \/ \E image \in Images :
                  LET tokensList == IF image # ""
                                    THEN Append(call.tokensList, [ id |-> ToNumber(call.tokenId), image |-> image ])
                                    ELSE call.tokensList
                  IN  IF call.i + 1 < call.limit
                      THEN /\ ret' = ret
                           /\ call' = [ call EXCEPT !.pc = "tokenOfOwnerByIndex", !.i = @ + 1,
                                           !.tokensList = tokensList, !.image = image ]
                      ELSE /\ ret' = ScanEnd(tokensList)
                           /\ call' = [ call EXCEPT !.done = TRUE, !.i = @ + 1, !.tokensList = tokensList,
                                           !.image = image ]
       ELSE \/ \E e \in ReadFailures : ViewerInnerCatch(e)
            \/ \E image \in Images :
                  IF image # ""
                  THEN /\ ret' = [ ret EXCEPT !.ownedTokens = << [ id |-> call.fid, image |-> image ] >>,
                                              !.selectedTokenId = call.fid, !.loadingState = "ready" ]
                       /\ call' = [ call EXCEPT !.done = TRUE, !.image = image ]
                  ELSE ViewerInnerCatch(<<"Failed to decode viral data.">>)
    /\ UNCHANGED <<keccak, comp>>

\* await readContract ownerOf(fid) and the comparison with the wallet address
ViewerOwnerOf ==
    /\ ViewerAt("ownerOf")
    /\ \/ \E e \in ReadFailures : ViewerInnerCatch(e)
       \/ \E owner \in Spellings :
             IF SameOwner(owner, call.address)
             THEN /\ ret' = ret
                  /\ call' = [ call EXCEPT !.pc = "tokenURI", !.owner = owner ]
             ELSE /\ ret' = [ ret EXCEPT !.loadingState = "no-assets" ]
                  /\ call' = [ call EXCEPT !.done = TRUE, !.owner = owner ]
    /\ UNCHANGED <<keccak, comp>>

\* onClick={() => setSelectedTokenId(token.id)}: a thumbnail of the selector
SelectStrain(k) ==
    /\ call.fn = "viewer"
    /\ ret.loadingState = "ready"
    /\ k \in DOMAIN ret.ownedTokens
    /\ ret.selectedTokenId # ret.ownedTokens[k].id
    /\ ret' = [ ret EXCEPT !.selectedTokenId = ret.ownedTokens[k].id ]
    /\ UNCHANGED <<keccak, comp, call>>

\* onClick={connectAndFetch}: the button of the error panel
Retry ==
    /\ call.fn = "viewer"
    /\ ret.loadingState = "error"
    /\ call' = ViewerRun(call.page)
    /\ ret' = IF call.page = "scan"
              THEN [ ret EXCEPT !.loadingState = "connecting" ]
              ELSE [ ret EXCEPT !.loadingState = "connecting", !.scanStatus = "Initializing connection...",
                                !.errorMessage = NoMessage ]
    /\ UNCHANGED <<keccak, comp>>

ViewerStep ==
    \/ ViewerContext
    \/ ViewerGetEthereumProvider
    \/ ViewerRequestAddresses
    \/ ViewerBalanceOf
    \/ ViewerTokenOfOwnerByIndex
    \/ ViewerTokenURI
    \/ ViewerOwnerOf

NextViewer ==
    \/ ViewerContext
    \/ ViewerGetEthereumProvider
    \/ ViewerRequestAddresses
    \/ ViewerBalanceOf
    \/ ViewerTokenOfOwnerByIndex
    \/ ViewerTokenURI
    \/ ViewerOwnerOf
    \/ \E k \in 1..MaxBalance : SelectStrain(k)
    \/ Retry

SpecViewer == InitViewer /\ [][NextViewer]_vars

\* Every promise connectAndFetch awaits settles, and the event loop then runs
\* the continuation
SpecViewerFair == SpecViewer /\ WF_vars(ViewerStep)

\* C28: In the view-3d page, whenever loadingState is 'ready' a strain is
\* selected: selectedTokenId is not null and ownedTokens has an entry with that
\* id, for every outcome of the balance, token and tokenURI reads, token URIs
\* whose image cannot be decoded included.
C28_ReadyHasSelection ==
    (call.fn = "viewer" /\ ret.loadingState = "ready")
    => /\ ret.selectedTokenId # Null
       /\ \E k \in DOMAIN ret.ownedTokens : ret.ownedTokens[k].id = ret.selectedTokenId

\* A run of connectAndFetch of the ownerOf version has ended
OwnerRunEnded == call.fn = "viewer" /\ call.page = "ownerOf" /\ call.done

C30_PoseOfTimeAlone ==
    [][ Ticked =>
          /\ ret' = FrameCallbacks(comp["a"], BuildScene(comp["a"]), call'.elapsed)
          /\ comp["a"].variant \in {"rugged", "ring"}
             => \A k \in 1..3 : /\ ret'.root.scale[k] >= (180 * (Scale - Scale \div 50)) \div 100
                                /\ ret'.root.scale[k] <= (180 * (Scale + Scale \div 50)) \div 100 ]_vars
=============================================================================
